---- MODULE Spec2Model ----
(***************************************************************************)
(* The local sample catalog of the OP-XY drum builder: StorageService      *)
(* (directories, samples, the in-memory handle cache), the directory       *)
(* scanner with its progress events, the Dropzone handler that drives      *)
(* addDirectory, and the one-shot classifier.                              *)
(***************************************************************************)
EXTENDS Integers, Sequences, FiniteSets, TLC

VARIABLES
    directories,           \* object store "directories": set of DirectoryMetadata
    samples,               \* object store "samples": set of SampleMetadata
    directoryHandles,      \* StorageService.directoryHandles: id -> handle (a root name)
    directoryPermissions,  \* StorageService.directoryPermissions: id -> BOOLEAN
    fstate,                \* the disk: audio file path -> what reading/decoding it gives
    denied,                \* the disk: subdirectories whose enumeration throws
    osGranted,             \* roots whose handle has read permission in this session
    diskEdits,             \* number of changes made to the disk so far
    clock,                 \* the value Date.now() returns
    calls,                 \* number of operations called so far
    add,                   \* addDirectory in flight
    req,                   \* requestDirectoryPermission in flight
    rem,                   \* removeDirectory in flight
    upd,                   \* updateSample in flight
    lst,                   \* getDirectories in flight
    gf,                    \* getFile: the call whose outcome the caller holds
    log,                   \* progress events delivered to the listener during the addDirectory in flight
    dz,                    \* Dropzone component state: error, isProcessing, status
    shot,                  \* the file handed to isLikelyDrumOneShot, and its verdict
    keys,                  \* PianoKeys state keys: the 24 keys and their samples
    currentRack,           \* PianoKeys state currentRack
    drumRacks,             \* object store "drumRacks": set of DrumRack
    pk,                    \* PianoKeys state: error, presetName, rackName
    dl,                    \* the handleDownload invocations of the session
    am,                    \* the auto-map run (handleFolderDrop, handleRandomRack) in flight
    aud,                   \* DirectoryBrowser audition: the playSample runs and their players
    cz,                    \* a file name handed to categorizeSample, and its category
    midi,                  \* two key notes handed to getMidiNoteNumber, and their numbers
    wav,                   \* audioBufferToWav at work: its buffer, pos, offset and view
    clip,                  \* the export of one key whose sample has edit parameters
    sel,                   \* the page's selectedSample and the analyzeSample runs
    playersRef,            \* PianoKeys playersRef.current: note -> player
    buffersRef,            \* PianoKeys buffersRef.current: note -> buffer
    tone                   \* the Tone players and buffers created and not disposed

vars == <<directories, samples, directoryHandles, directoryPermissions, fstate, denied,
          osGranted, diskEdits, clock, calls, add, req, rem, upd, lst, gf, log, dz, shot,
          keys, currentRack, drumRacks, pk, dl, am, aud, cz, midi, wav, clip, sel,
          playersRef, buffersRef, tone>>

catalogVars == <<directories, samples, directoryHandles, directoryPermissions, fstate, denied,
                 osGranted, diskEdits, clock, calls, add, req, rem, upd, lst, gf, log, dz>>

catalogVarsButCalls == <<directories, samples, directoryHandles, directoryPermissions, fstate,
                         denied, osGranted, diskEdits, clock, add, req, rem, upd, lst, gf, log, dz>>

pianoVars == <<keys, currentRack, drumRacks, pk, dl>>

\* The state of the helpers and of the sample list, checked on their own.
helperVars == <<midi, wav, clip, sel>>

\* The audio resources of PianoKeys.
toneVars == <<playersRef, buffersRef, tone>>

uiVars == <<pianoVars, am, aud, cz, helperVars, toneVars>>

(***************************************************************************)
(* Bounds of the model.                                                    *)
(***************************************************************************)
MaxClock == 2
MaxCached == 3
MaxCalls == 3
MaxDiskEdits == 1

(***************************************************************************)
(* Values.                                                                 *)
(***************************************************************************)
\* JavaScript's undefined, for a field that holds numbers otherwise.
Undefined == -1

\* JavaScript's null where a string is expected.
Null == "null"

Roots == {"A", "B"}

\* The directory trees the user can pick, in the order values() lists them.
Entries(dirPath) ==
    IF dirPath = <<"A">> THEN
        << [kind |-> "file", name |-> "k.wav"],
           [kind |-> "directory", name |-> "s"],
           [kind |-> "file", name |-> "t.wav"] >>
    ELSE IF dirPath = <<"A", "s">> THEN
        << [kind |-> "file", name |-> "h.wav"] >>
    ELSE IF dirPath = <<"B">> THEN
        << [kind |-> "file", name |-> "k.wav"],
           [kind |-> "file", name |-> "notes.txt"] >>
    ELSE << >>

AudioPaths == { <<"A", "k.wav">>, <<"A", "s", "h.wav">>, <<"A", "t.wav">>, <<"B", "k.wav">> }

SubDirs == { <<"A", "s">> }

\* What a file gives when it is read and decoded:
\*   "oneshot"  it decodes and isLikelyDrumOneShot accepts it
\*   "notshot"  it decodes and isLikelyDrumOneShot rejects it
\*   "corrupt"  getFile succeeds and decodeAudioData throws
\*   "absent"   the file is gone: it is not listed, and getFile on a handle to it throws
FileStates == {"oneshot", "notshot", "corrupt", "absent"}

\* entry.name.match(/\.(wav|mp3|aiff?|m4a)$/i)
HasAudioExtension(name) == name \in {"k.wav", "h.wav", "t.wav"}

\* What decodeAudioData reports for a decodable file.
Decoded == [duration |-> 1, channels |-> 2, sampleRate |-> 3]

\* What analyzeSample computes for a decodable file.
Analyzed == [duration |-> 1, channels |-> 2, sampleRate |-> 3, rmsLevel |-> 4]

NoDetails == [duration |-> Undefined, channels |-> Undefined, sampleRate |-> Undefined]

Last(s) == s[Len(s)]

Front(s) == SubSeq(s, 1, Len(s) - 1)

\* a ?? b
Coalesce(a, b) == IF a # Undefined THEN a ELSE b

Min(S) == CHOOSE x \in S : \A y \in S : x <= y

(***************************************************************************)
(* Progress events.                                                        *)
(***************************************************************************)
Scanning(by, n) ==
    [by |-> by, type |-> "scanning", detectedCount |-> n, total |-> Undefined, processed |-> Undefined]

Processing(by, total, processed) ==
    [by |-> by, type |-> "processing", detectedCount |-> Undefined, total |-> total, processed |-> processed]

(***************************************************************************)
(* scanDirectory: the depth-first walk.  The result carries the entries,   *)
(* the running count, the events emitted on the way and whether the walk   *)
(* threw.                                                                  *)
(***************************************************************************)
RECURSIVE ScanEntries(_, _, _, _)
RECURSIVE scanDirectory(_, _, _)

\* The body of the for-await loop from the k-th listed entry on.
ScanEntries(by, dirPath, k, count) ==
    IF k > Len(Entries(dirPath)) THEN
        [ok |-> TRUE, entries |-> << >>, totalDetected |-> count, events |-> << >>]
    ELSE
        LET e == Entries(dirPath)[k]
            p == dirPath \o <<e.name>>
        IN  IF e.kind = "file" THEN
                IF HasAudioExtension(e.name) /\ fstate[p] = "oneshot" THEN
                    LET rest == ScanEntries(by, dirPath, k + 1, count + 1)
                    IN  [ok |-> rest.ok,
                         entries |-> << [name |-> e.name, path |-> p] >> \o rest.entries,
                         totalDetected |-> rest.totalDetected,
                         events |-> << Scanning(by, count + 1) >> \o rest.events]
                ELSE ScanEntries(by, dirPath, k + 1, count)
            ELSE
                LET sub == scanDirectory(by, p, count)
                IN  IF ~sub.ok THEN sub
                    ELSE LET rest == ScanEntries(by, dirPath, k + 1, sub.totalDetected)
                         IN  [ok |-> rest.ok,
                              entries |-> sub.entries \o rest.entries,
                              totalDetected |-> rest.totalDetected,
                              events |-> sub.events \o rest.events]

scanDirectory(by, dirPath, runningCount) ==
    IF dirPath \in denied THEN
        [ok |-> FALSE, entries |-> << >>, totalDetected |-> runningCount, events |-> << >>]
    ELSE ScanEntries(by, dirPath, 1, runningCount)

(***************************************************************************)
(* Maps (JavaScript Map) as functions.                                     *)
(***************************************************************************)
EmptyMap == [x \in {} |-> 0]

MapSet(m, k, v) == [x \in DOMAIN m \cup {k} |-> IF x = k THEN v ELSE m[x]]

MapDelete(m, k) == [x \in DOMAIN m \ {k} |-> m[x]]

(***************************************************************************)
(* Records of the stores.  A DirectoryMetadata is modelled by its id, its  *)
(* path (its name is the same string) and its handle; a SampleMetadata by  *)
(* all its fields.                                                         *)
(***************************************************************************)
\* Every id some record, cache or operation in flight holds.
UsedIds ==
    { d.id : d \in directories } \cup { s.id : s \in samples }
        \cup { s.directoryId : s \in samples } \cup DOMAIN directoryHandles
        \cup DOMAIN directoryPermissions \cup { add.id, req.id, rem.id, upd.id, gf.id }
        \cup rem.snapshot \cup { s.id : s \in req.existing } \cup { s.id : s \in upd.sample }
        \cup { d.id : d \in lst.todo } \cup { e.id : e \in lst.report }

\* crypto.randomUUID(): an id that nothing holds.  Ids are only ever compared
\* for equality, so the least natural number not in use stands for it.
FreshId == Min((0 .. Cardinality(UsedIds)) \ UsedIds)

\* The ids a caller can pass: those in use, and one that nothing holds.
AllIds == { i \in UsedIds : i >= 0 } \cup {FreshId}

DirectoryIds == { d.id : d \in directories }

SamplesOf(dirId) == { s \in samples : s.directoryId = dirId }

\* db.getAllFromIndex("samples", "by-directory", directoryId)
getSamples(directoryId) == SamplesOf(directoryId)

\* The sample an insert-only addSample would write: a new id and a new
\* createdAt whatever the store holds.
AddedSample(filePath, directoryId, audioDetails) ==
    [id |-> FreshId,
     name |-> Last(filePath),
     filePath |-> filePath,
     directoryId |-> directoryId,
     directoryPath |-> Front(filePath),
     duration |-> Coalesce(audioDetails.duration, 0),
     channels |-> Coalesce(audioDetails.channels, 0),
     sampleRate |-> Coalesce(audioDetails.sampleRate, 0),
     rmsLevel |-> 0,
     createdAt |-> clock]

\* An upsert that keeps the id and createdAt of the existing record and takes
\* every audio field from the call alone, undefined becoming 0.
OverwritingSample(filePath, directoryId, audioDetails) ==
    LET existingSamples == { s \in SamplesOf(directoryId) : s.filePath = filePath }
        found == existingSamples # {}
        existingSample == CHOOSE s \in existingSamples : s.id = Min({ x.id : x \in existingSamples })
        fresh == AddedSample(filePath, directoryId, audioDetails)
    IN  IF found THEN [fresh EXCEPT !.id = existingSample.id, !.createdAt = existingSample.createdAt]
        ELSE fresh

\* The sample upsertSample writes: existingSample is the first record of the
\* directory with this filePath, if there is one.
UpsertedSample(filePath, directoryId, audioDetails) ==
    LET existingSamples == { s \in SamplesOf(directoryId) : s.filePath = filePath }
        found == existingSamples # {}
        existingSample == CHOOSE s \in existingSamples : s.id = Min({ x.id : x \in existingSamples })
    IN  [id |-> IF found THEN existingSample.id ELSE FreshId,
         name |-> Last(filePath),
         filePath |-> filePath,
         directoryId |-> directoryId,
         directoryPath |-> Front(filePath),
         duration |-> Coalesce(audioDetails.duration,
                               IF found THEN Coalesce(existingSample.duration, 0) ELSE 0),
         channels |-> Coalesce(audioDetails.channels,
                               IF found THEN Coalesce(existingSample.channels, 0) ELSE 0),
         sampleRate |-> Coalesce(audioDetails.sampleRate,
                                 IF found THEN Coalesce(existingSample.sampleRate, 0) ELSE 0),
         rmsLevel |-> IF found THEN Coalesce(existingSample.rmsLevel, 0) ELSE 0,
         createdAt |-> IF found THEN existingSample.createdAt ELSE clock]

\* tx.store.put(sample): the record with the same key is replaced.
PutSample(store, sample) == { s \in store : s.id # sample.id } \cup {sample}

\* What upsertSample's transaction leaves in the samples store.
upsertSample(filePath, directoryId, audioDetails) ==
    PutSample(samples, UpsertedSample(filePath, directoryId, audioDetails))

\* One more call is counted.
Called == calls < MaxCalls /\ calls' = calls + 1

\* Time passes between two user operations.
Later == IF clock < MaxClock THEN clock + 1 ELSE clock

(***************************************************************************)
(* The operations' records when nothing is in flight.                      *)
(***************************************************************************)
AddIdle ==
    [pc |-> "idle", id |-> Undefined, handle |-> Null, entries |-> << >>, i |-> 0,
     result |-> "none", cause |-> "none"]

ReqIdle ==
    [pc |-> "idle", id |-> Undefined, path |-> Null, handle |-> Null, entries |-> << >>,
     existing |-> {}, i |-> 0, result |-> "none"]

RemIdle == [pc |-> "idle", id |-> Undefined, snapshot |-> {}]

UpdIdle == [pc |-> "idle", id |-> Undefined, sample |-> {}, result |-> "none"]

LstIdle == [pc |-> "idle", todo |-> {}, report |-> {}]

GfIdle == [pc |-> "idle", id |-> Undefined, path |-> << >>, result |-> "none"]

DzIdle(error) == [error |-> error, isProcessing |-> FALSE, status |-> << >>]

AllIdle ==
    /\ add.pc = "idle"
    /\ req.pc = "idle"
    /\ rem.pc = "idle"
    /\ upd.pc = "idle"
    /\ lst.pc = "idle"
    /\ gf.pc = "idle"

\* emitProgress to the Dropzone's listener: setStatus(state)
Deliver(events) ==
    /\ log' = log \o events
    /\ dz' = IF events = << >> THEN dz ELSE [dz EXCEPT !.status = << Last(events) >>]

(***************************************************************************)
(* StorageService.addDirectory, called by Dropzone.handleDirectorySelect.  *)
(***************************************************************************)
\* addDirectory's catch block: return null.
AddReturnsNull(cause) == add' = [add EXCEPT !.pc = "returned", !.result = "null", !.cause = cause]

\* The click: setIsProcessing(true); setError(null); setStatus(null); the picker opens.
AddStart ==
    /\ Called
    /\ add.pc = "idle"
    /\ ~dz.isProcessing
    /\ add' = [AddIdle EXCEPT !.pc = "picker"]
    /\ dz' = [error |-> Null, isProcessing |-> TRUE, status |-> << >>]
    /\ clock' = Later
    /\ UNCHANGED <<directories, samples, directoryHandles, directoryPermissions, fstate,
                   denied, osGranted, diskEdits, req, rem, upd, lst, gf, log, shot, uiVars>>

\* showDirectoryPicker() rejects with AbortError.
AddPickerCancel ==
    /\ add.pc = "picker"
    /\ AddReturnsNull("AbortError")
    /\ UNCHANGED <<directories, samples, directoryHandles, directoryPermissions, fstate,
                   denied, osGranted, diskEdits, clock, calls, req, rem, upd, lst, gf, log, dz, shot, uiVars>>

\* The user grants root r: the caches are set, then the directory is put; the
\* unique by-path index rejects a second record with the same path.
AddPicked(r) ==
    /\ add.pc = "picker"
    /\ LET id == FreshId
           taken == \E d \in directories : d.path = r
       IN  /\ Cardinality(DOMAIN directoryHandles) < MaxCached
           /\ osGranted' = osGranted \cup {r}
           /\ directoryHandles' = MapSet(directoryHandles, id, r)
           /\ directoryPermissions' = MapSet(directoryPermissions, id, TRUE)
           /\ IF taken
              THEN /\ add' = [add EXCEPT !.pc = "returned", !.result = "null",
                                         !.cause = "ConstraintError", !.id = id]
                   /\ UNCHANGED <<directories, log, dz>>
              ELSE /\ directories' = directories \cup {[id |-> id, path |-> r, handle |-> r]}
                   /\ add' = [add EXCEPT !.pc = "scan", !.id = id, !.handle = r]
                   /\ Deliver(<< Scanning("add", 0) >>)
    /\ UNCHANGED <<samples, fstate, denied, diskEdits, clock, calls, req, rem, upd, lst, gf, shot, uiVars>>

\* scanDirectory(handle), then the first 'processing' event.
AddScan ==
    /\ add.pc = "scan"
    /\ LET res == scanDirectory("add", << add.handle >>, 0)
       IN  IF ~res.ok
           THEN /\ Deliver(res.events)
                /\ AddReturnsNull("scan")
           ELSE /\ add' = [add EXCEPT !.pc = "process", !.entries = res.entries, !.i = 0]
                /\ Deliver(res.events \o << Processing("add", Len(res.entries), 0) >>)
    /\ UNCHANGED <<directories, samples, directoryHandles, directoryPermissions, fstate,
                   denied, osGranted, diskEdits, clock, calls, req, rem, upd, lst, gf, shot, uiVars>>

\* One turn of the processing loop: getFile, decodeAudioData, upsertSample, emit.
AddProcess ==
    /\ add.pc = "process"
    /\ add.i < Len(add.entries)
    /\ LET entry == add.entries[add.i + 1]
       IN  IF fstate[entry.path] \in {"absent", "corrupt"}
           THEN /\ AddReturnsNull("process")
                /\ UNCHANGED <<samples, log, dz>>
           ELSE /\ samples' = upsertSample(entry.path, add.id, Decoded)
                /\ add' = [add EXCEPT !.i = add.i + 1]
                /\ Deliver(<< Processing("add", Len(add.entries), add.i + 1) >>)
    /\ UNCHANGED <<directories, directoryHandles, directoryPermissions, fstate, denied,
                   osGranted, diskEdits, clock, calls, req, rem, upd, lst, gf, shot, uiVars>>

\* The loop is over: addDirectory returns the directory.
AddFinish ==
    /\ add.pc = "process"
    /\ add.i = Len(add.entries)
    /\ add' = [add EXCEPT !.pc = "returned", !.result = "directory"]
    /\ UNCHANGED <<directories, samples, directoryHandles, directoryPermissions, fstate,
                   denied, osGranted, diskEdits, clock, calls, req, rem, upd, lst, gf, log, dz, shot, uiVars>>

\* handleDirectorySelect after the await: a null result sets the error; the
\* finally block clears isProcessing and status.
AddDone ==
    /\ add.pc = "returned"
    /\ dz' = DzIdle(IF add.result = "null"
                    THEN "Directory access was denied or cancelled" ELSE dz.error)
    /\ add' = AddIdle
    /\ log' = << >>
    /\ UNCHANGED <<directories, samples, directoryHandles, directoryPermissions, fstate,
                   denied, osGranted, diskEdits, clock, calls, req, rem, upd, lst, gf, shot, uiVars>>

(***************************************************************************)
(* StorageService.requestDirectoryPermission(directoryId).                 *)
(***************************************************************************)
\* The call: db.get("directories", directoryId); a missing record returns false.
ReqStart(d) ==
    /\ Called
    /\ req.pc = "idle"
    /\ IF d \in DirectoryIds
       THEN LET directory == CHOOSE x \in directories : x.id = d
            IN  req' = [ReqIdle EXCEPT !.pc = "picker", !.id = d, !.path = directory.path]
       ELSE req' = [ReqIdle EXCEPT !.pc = "returned", !.id = d, !.result = "false"]
    /\ clock' = Later
    /\ UNCHANGED <<directories, samples, directoryHandles, directoryPermissions, fstate, denied,
                   osGranted, diskEdits, add, rem, upd, lst, gf, log, dz, shot, uiVars>>

\* showDirectoryPicker() rejects: the catch block returns false.
ReqPickerCancel ==
    /\ req.pc = "picker"
    /\ req' = [req EXCEPT !.pc = "returned", !.result = "false"]
    /\ UNCHANGED <<directories, samples, directoryHandles, directoryPermissions, fstate, denied,
                   osGranted, diskEdits, clock, calls, add, rem, upd, lst, gf, log, dz, shot, uiVars>>

\* The user picks root r and queryPermission answers: when granted, the caches
\* are set and the record read at the call is put back with the new handle.
ReqPicked(r, granted) ==
    /\ req.pc = "picker"
    /\ IF ~granted
       THEN /\ req' = [req EXCEPT !.pc = "returned", !.result = "false"]
            /\ UNCHANGED <<directories, directoryHandles, directoryPermissions, osGranted>>
       ELSE /\ osGranted' = osGranted \cup {r}
            /\ directoryHandles' = MapSet(directoryHandles, req.id, r)
            /\ directoryPermissions' = MapSet(directoryPermissions, req.id, TRUE)
            /\ IF \E d \in directories : d.path = req.path /\ d.id # req.id
               THEN /\ req' = [req EXCEPT !.pc = "returned", !.result = "false"]
                    /\ UNCHANGED directories
               ELSE /\ directories' = { d \in directories : d.id # req.id } \cup
                                      { [id |-> req.id, path |-> req.path, handle |-> r] }
                    /\ req' = [req EXCEPT !.pc = "scan", !.handle = r]
    /\ UNCHANGED <<samples, fstate, denied, diskEdits, clock, calls, add, rem, upd, lst, gf,
                   log, dz, shot, uiVars>>

\* scanDirectory(handle): the walk emits its 'scanning' events; a throw returns false.
ReqScan ==
    /\ req.pc = "scan"
    /\ LET res == scanDirectory("req", << req.handle >>, 0)
       IN  /\ Deliver(res.events)
           /\ req' = IF res.ok THEN [req EXCEPT !.pc = "read", !.entries = res.entries]
                     ELSE [req EXCEPT !.pc = "returned", !.result = "false"]
    /\ UNCHANGED <<directories, samples, directoryHandles, directoryPermissions, fstate, denied,
                   osGranted, diskEdits, clock, calls, add, rem, upd, lst, gf, shot, uiVars>>

\* const existingSamples = await this.getSamples(directoryId)
ReqRead ==
    /\ req.pc = "read"
    /\ req' = [req EXCEPT !.pc = "prune", !.existing = getSamples(req.id)]
    /\ UNCHANGED <<directories, samples, directoryHandles, directoryPermissions, fstate, denied,
                   osGranted, diskEdits, clock, calls, add, rem, upd, lst, gf, log, dz, shot, uiVars>>

\* new Set(entries.map((e) => e.path))
PathsOf(entries) == { entries[k].path : k \in 1 .. Len(entries) }

\* The samples the prune transaction deletes: those whose path the scan did not find.
Pruned(existingSamples, entries) ==
    { s.id : s \in { x \in existingSamples : x.filePath \notin PathsOf(entries) } }

ReqPrune ==
    /\ req.pc = "prune"
    /\ samples' = { s \in samples : s.id \notin Pruned(req.existing, req.entries) }
    /\ req' = [req EXCEPT !.pc = "upsert", !.i = 0]
    /\ UNCHANGED <<directories, directoryHandles, directoryPermissions, fstate, denied,
                   osGranted, diskEdits, clock, calls, add, rem, upd, lst, gf, log, dz, shot, uiVars>>

\* One turn of the upsert loop: getFile, then upsertSample with undefined details.
ReqUpsert ==
    /\ req.pc = "upsert"
    /\ req.i < Len(req.entries)
    /\ LET entry == req.entries[req.i + 1]
       IN  IF fstate[entry.path] = "absent"
           THEN /\ req' = [req EXCEPT !.pc = "returned", !.result = "false"]
                /\ UNCHANGED <<samples>>
           ELSE /\ samples' = upsertSample(entry.path, req.id, NoDetails)
                /\ req' = [req EXCEPT !.i = req.i + 1]
    /\ UNCHANGED <<directories, directoryHandles, directoryPermissions, fstate, denied,
                   osGranted, diskEdits, clock, calls, add, rem, upd, lst, gf, log, dz, shot, uiVars>>

\* The loop is over: return true.
ReqFinish ==
    /\ req.pc = "upsert"
    /\ req.i = Len(req.entries)
    /\ req' = [req EXCEPT !.pc = "returned", !.result = "true"]
    /\ UNCHANGED <<directories, samples, directoryHandles, directoryPermissions, fstate, denied,
                   osGranted, diskEdits, clock, calls, add, rem, upd, lst, gf, log, dz, shot, uiVars>>

\* handleRequestPermission after the await.
ReqDone ==
    /\ req.pc = "returned"
    /\ req' = ReqIdle
    /\ UNCHANGED <<directories, samples, directoryHandles, directoryPermissions, fstate, denied,
                   osGranted, diskEdits, clock, calls, add, rem, upd, lst, gf, log, dz, shot, uiVars>>

(***************************************************************************)
(* StorageService.removeDirectory(id).                                     *)
(***************************************************************************)
\* const samples = await this.getSamples(id)
RemStart(d) ==
    /\ Called
    /\ rem.pc = "idle"
    /\ rem' = [pc |-> "tx", id |-> d, snapshot |-> { s.id : s \in getSamples(d) }]
    /\ UNCHANGED <<directories, samples, directoryHandles, directoryPermissions, fstate, denied,
                   osGranted, diskEdits, clock, add, req, upd, lst, gf, log, dz, shot, uiVars>>

\* A cascade that clears the samples store.
ClearedSamples(store, snapshot) == {}

\* What the readwrite transaction over both stores leaves in the samples store.
RemainingSamples(store, snapshot) == { s \in store : s.id \notin snapshot }

\* The transaction, and the cache entries dropped.
RemTx ==
    /\ rem.pc = "tx"
    /\ samples' = RemainingSamples(samples, rem.snapshot)
    /\ directories' = { d \in directories : d.id # rem.id }
    /\ directoryHandles' = MapDelete(directoryHandles, rem.id)
    /\ directoryPermissions' = MapDelete(directoryPermissions, rem.id)
    /\ rem' = [rem EXCEPT !.pc = "returned"]
    /\ UNCHANGED <<fstate, denied, osGranted, diskEdits, clock, calls, add, req, upd, lst, gf,
                   log, dz, shot, uiVars>>

\* handleDeleteFolder after the await.
RemDone ==
    /\ rem.pc = "returned"
    /\ rem' = RemIdle
    /\ UNCHANGED <<directories, samples, directoryHandles, directoryPermissions, fstate, denied,
                   osGranted, diskEdits, clock, calls, add, req, upd, lst, gf, log, dz, shot, uiVars>>

(***************************************************************************)
(* Sample methods.                                                         *)
(***************************************************************************)
\* removeSample(id): db.delete("samples", id)
RemoveSample(id) ==
    /\ Called
    /\ samples' = { s \in samples : s.id # id }
    /\ UNCHANGED <<directories, directoryHandles, directoryPermissions, fstate, denied,
                   osGranted, diskEdits, clock, add, req, rem, upd, lst, gf, log, dz,
                   shot, uiVars>>

\* updateSample(id, updates): db.get("samples", id); a missing record throws.
UpdStart(id) ==
    /\ Called
    /\ upd.pc = "idle"
    /\ LET found == { s \in samples : s.id = id }
       IN  upd' = IF found = {}
                  THEN [UpdIdle EXCEPT !.pc = "returned", !.id = id, !.result = "Sample not found"]
                  ELSE [UpdIdle EXCEPT !.pc = "put", !.id = id, !.sample = found]
    /\ UNCHANGED <<directories, samples, directoryHandles, directoryPermissions, fstate, denied,
                   osGranted, diskEdits, clock, add, req, rem, lst, gf, log, dz, shot, uiVars>>

\* The record updateSample puts: { ...sample, ...updates }
UpdatedSample(sample, updates) ==
    [sample EXCEPT !.duration = updates.duration, !.channels = updates.channels,
                   !.sampleRate = updates.sampleRate, !.rmsLevel = updates.rmsLevel]

\* db.put("samples", { ...sample, ...updates })
UpdPut ==
    /\ upd.pc = "put"
    /\ LET sample == CHOOSE s \in upd.sample : TRUE
       IN  samples' = PutSample(samples, UpdatedSample(sample, Analyzed))
    /\ upd' = [upd EXCEPT !.pc = "returned", !.sample = {}, !.result = "ok"]
    /\ UNCHANGED <<directories, directoryHandles, directoryPermissions, fstate, denied,
                   osGranted, diskEdits, clock, calls, add, req, rem, lst, gf, log, dz, shot, uiVars>>

\* analyzeSample after the await.
UpdDone ==
    /\ upd.pc = "returned"
    /\ upd' = UpdIdle
    /\ UNCHANGED <<directories, samples, directoryHandles, directoryPermissions, fstate, denied,
                   osGranted, diskEdits, clock, calls, add, req, rem, lst, gf, log, dz, shot, uiVars>>

\* upsertSample called from outside the scans, for a directory of the catalog.
UpsertCall(p, d, audioDetails) ==
    /\ Called
    /\ \E dir \in directories : dir.id = d /\ dir.handle = p[1]
    /\ fstate[p] \notin {"absent", "corrupt"}
    /\ samples' = upsertSample(p, d, audioDetails)
    /\ UNCHANGED <<directories, directoryHandles, directoryPermissions, fstate, denied,
                   osGranted, diskEdits, clock, add, req, rem, upd, lst, gf, log, dz, shot, uiVars>>

(***************************************************************************)
(* StorageService.getDirectories().                                        *)
(***************************************************************************)
\* const directories = await this.db.getAll("directories")
LstStart ==
    /\ Called
    /\ lst.pc = "idle"
    /\ lst' = [pc |-> "check", todo |-> directories, report |-> {}]
    /\ UNCHANGED <<directories, samples, directoryHandles, directoryPermissions, fstate, denied,
                   osGranted, diskEdits, clock, add, req, rem, upd, gf, log, dz, shot, uiVars>>

\* One of the Promise.all callbacks: queryPermission answers and both caches
\* are updated, or it throws and the directory is reported without permission.
LstCheck(dir, throws) ==
    /\ lst.pc = "check"
    /\ dir \in lst.todo
    /\ LET hasPermission == dir.handle \in osGranted
       IN  IF throws
           THEN /\ lst' = [lst EXCEPT !.todo = lst.todo \ {dir},
                                      !.report = lst.report \cup
                                                 {[id |-> dir.id, hasPermission |-> FALSE]}]
                /\ UNCHANGED <<directoryHandles, directoryPermissions>>
           ELSE /\ lst' = [lst EXCEPT !.todo = lst.todo \ {dir},
                                      !.report = lst.report \cup
                                                 {[id |-> dir.id, hasPermission |-> hasPermission]}]
                /\ directoryHandles' = MapSet(directoryHandles, dir.id, dir.handle)
                /\ directoryPermissions' = MapSet(directoryPermissions, dir.id, hasPermission)
    /\ UNCHANGED <<directories, samples, fstate, denied, osGranted, diskEdits, clock, calls,
                   add, req, rem, upd, gf, log, dz, shot, uiVars>>

\* Promise.all resolves: the annotated list is returned.
LstFinish ==
    /\ lst.pc = "check"
    /\ lst.todo = {}
    /\ lst' = [lst EXCEPT !.pc = "returned"]
    /\ UNCHANGED <<directories, samples, directoryHandles, directoryPermissions, fstate, denied,
                   osGranted, diskEdits, clock, calls, add, req, rem, upd, gf, log, dz, shot, uiVars>>

\* The directories query has its data.
LstDone ==
    /\ lst.pc = "returned"
    /\ lst' = LstIdle
    /\ UNCHANGED <<directories, samples, directoryHandles, directoryPermissions, fstate, denied,
                   osGranted, diskEdits, clock, calls, add, req, rem, upd, gf, log, dz, shot, uiVars>>

(***************************************************************************)
(* StorageService.getFile(filePath, directoryHandleId).                    *)
(***************************************************************************)
\* A getFile that consults directoryPermissions and treats a directory without
\* permission as not cached.
getFileIfPermitted(filePath, directoryHandleId) ==
    IF \/ directoryHandleId \notin DOMAIN directoryHandles
       \/ directoryHandleId \notin DOMAIN directoryPermissions
       \/ ~directoryPermissions[directoryHandleId]
    THEN "Directory handle not found"
    ELSE LET target == << directoryHandles[directoryHandleId] >> \o Tail(filePath)
         IN  IF target \in AudioPaths /\ fstate[target] # "absent" THEN "file"
             ELSE "NotFoundError"

\* The outcome of the call:
\*   "Directory handle not found"  the Error thrown on the cache miss
\*   "NotAllowedError"             a handle lookup refused for lack of permission
\*   "NotFoundError"               a handle lookup that finds no such entry
\*   "file"                        the File
getFile(filePath, directoryHandleId) ==
    IF directoryHandleId \notin DOMAIN directoryHandles THEN "Directory handle not found"
    ELSE LET dirHandle == directoryHandles[directoryHandleId]
             target == << dirHandle >> \o Tail(filePath)
         IN  IF dirHandle \notin osGranted THEN "NotAllowedError"
             ELSE IF \E k \in 2 .. (Len(target) - 1) : SubSeq(target, 1, k) \in denied
                  THEN "NotAllowedError"
             ELSE IF target \in AudioPaths /\ fstate[target] # "absent" THEN "file"
             ELSE "NotFoundError"

GetFile(filePath, directoryHandleId) ==
    /\ Called
    /\ gf.pc = "idle"
    /\ gf' = [pc |-> "returned", id |-> directoryHandleId, path |-> filePath,
              result |-> getFile(filePath, directoryHandleId)]
    /\ UNCHANGED <<directories, samples, directoryHandles, directoryPermissions, fstate, denied,
                   osGranted, diskEdits, clock, add, req, rem, upd, lst, log, dz, shot, uiVars>>

\* The caller has consumed the outcome.
GetFileDone ==
    /\ gf.pc = "returned"
    /\ gf' = GfIdle
    /\ UNCHANGED <<directories, samples, directoryHandles, directoryPermissions, fstate, denied,
                   osGranted, diskEdits, clock, calls, add, req, rem, upd, lst, log, dz, shot, uiVars>>

(***************************************************************************)
(* The environment: the disk, a new session.                               *)
(***************************************************************************)
DiskEdit(p, st) ==
    /\ diskEdits < MaxDiskEdits
    /\ fstate[p] # st
    /\ fstate' = [fstate EXCEPT ![p] = st]
    /\ diskEdits' = diskEdits + 1
    /\ UNCHANGED <<directories, samples, directoryHandles, directoryPermissions, denied,
                   osGranted, clock, calls, add, req, rem, upd, lst, gf, log, dz, shot, uiVars>>

\* A subdirectory becomes unreadable, or readable again.
DiskDeny(sd) ==
    /\ diskEdits < MaxDiskEdits
    /\ denied' = IF sd \in denied THEN denied \ {sd} ELSE denied \cup {sd}
    /\ diskEdits' = diskEdits + 1
    /\ UNCHANGED <<directories, samples, directoryHandles, directoryPermissions, fstate,
                   osGranted, clock, calls, add, req, rem, upd, lst, gf, log, dz, shot, uiVars>>

\* The page is loaded again: a new StorageService with empty caches, a new
\* Dropzone, and the stored handles have lost their permission.
Reload ==
    /\ AllIdle
    /\ directoryHandles' = EmptyMap
    /\ directoryPermissions' = EmptyMap
    /\ osGranted' = {}
    /\ dz' = DzIdle(Null)
    /\ UNCHANGED <<directories, samples, fstate, denied, diskEdits, clock, calls, add, req,
                   rem, upd, lst, gf, log, shot, uiVars>>

(***************************************************************************)
(* Specifications of the catalog.                                          *)
(***************************************************************************)
(***************************************************************************)
(* isLikelyDrumOneShot.  Amplitudes are integers (tenths of the peak for   *)
(* PeakLevel = 10) and sample rates are 100 and 200 frames per second, so  *)
(* that a 10 ms window is one or two frames and 2 s are 200 or 400 frames. *)
(***************************************************************************)

\* The largest level a frame takes: the level of the peak.
PeakLevel == 10

\* How many of the nine window-to-window steps after the peak may fail to go down.
MaxRises == 3

SampleRates == {100, 200}

numWindows == 10

Abs(x) == IF x < 0 THEN -x ELSE x

\* Math.floor(0.05 * sampleRate) and Math.floor(0.01 * sampleRate).
AttackSamples(sampleRate) == (5 * sampleRate) \div 100

WindowSize(sampleRate) == sampleRate \div 100

\* The frames of a buffer of 1.5 s, of 2 s, and of one frame more than 2 s.
Frames(duration, sampleRate) ==
    CASE duration = "1.5s" -> (3 * sampleRate) \div 2
      [] duration = "2s" -> 2 * sampleRate
      [] duration = "over2s" -> 2 * sampleRate + 1

\* The frame at 40% of a 1.5 s buffer.
FortyPercent(sampleRate) == (4 * Frames("1.5s", sampleRate)) \div 10

Leads(sampleRate) ==
    {0, AttackSamples(sampleRate), AttackSamples(sampleRate) + 1, FortyPercent(sampleRate)}

\* What follows the windows: nothing, silence, a tail at a tenth of the peak's
\* ten levels (of either sign), or a tail alternating between that and silence.
Tails == {"silent", "level", "negative", "alternating"}

TailFrame(tail, k) ==
    CASE tail = "silent" -> 0
      [] tail = "level" -> 1
      [] tail = "negative" -> -1
      [] tail = "alternating" -> k % 2

TwoMB == 2 * 1024 * 1024

\* The channel data of the file under construction: lead frames of silence,
\* then one window per level (frames of that level, of alternating sign), then
\* the tail up to the file's length.
WindowFrames(f) == Len(f.levels) * WindowSize(f.sampleRate)

ChannelData(f) ==
    LET body == f.lead + WindowFrames(f)
        n == IF f.length > body THEN f.length ELSE body
    IN  [i \in 1 .. n |->
            IF i <= f.lead THEN 0
            ELSE IF i <= body
                 THEN LET k == i - f.lead - 1
                          level == f.levels[(k \div WindowSize(f.sampleRate)) + 1]
                      IN  IF k % 2 = 0 THEN level ELSE -level
                 ELSE TailFrame(f.tail, i - body)]

\* The loop of Check 2 over the frames lo .. hi - 1: the largest absolute value
\* above 0 and the first frame that has it (maxAmplitude 0 and maxIndex 0 when
\* no frame is above 0).  The range is walked in two halves; a later frame
\* replaces the running maximum only when strictly larger, as in the loop.
RECURSIVE FindPeak(_, _, _)
FindPeak(channelData, lo, hi) ==
    IF lo >= hi
    THEN [maxAmplitude |-> 0, maxIndex |-> 0]
    ELSE IF hi = lo + 1
    THEN LET abs == Abs(channelData[lo + 1])
         IN  IF abs > 0
             THEN [maxAmplitude |-> abs, maxIndex |-> lo]
             ELSE [maxAmplitude |-> 0, maxIndex |-> 0]
    ELSE LET mid == (lo + hi) \div 2
             first == FindPeak(channelData, lo, mid)
             second == FindPeak(channelData, mid, hi)
         IN  IF second.maxAmplitude > first.maxAmplitude THEN second ELSE first

\* The inner loop of Check 4: the sum of squares over j .. endIndex - 1, walked
\* in two halves; the caller stops endIndex at the end of the data.
RECURSIVE RmsSum(_, _, _)
RmsSum(channelData, j, endIndex) ==
    IF j >= endIndex THEN 0
    ELSE IF endIndex = j + 1 THEN channelData[j + 1] * channelData[j + 1]
    ELSE LET mid == (j + endIndex) \div 2
         IN  RmsSum(channelData, j, mid) + RmsSum(channelData, mid, endIndex)

\* The outer loop of Check 4 from window i on.  currentRMS is
\* sqrt(rmsSum / windowSize); both are increasing in rmsSum, so previousRMS is
\* kept as the sum it was computed from (0 before the first window).
RECURSIVE DecayCount(_, _, _, _, _)
DecayCount(channelData, maxIndex, windowSize, i, previousRMS) ==
    IF i >= numWindows THEN 0
    ELSE LET startIndex == maxIndex + i * windowSize
             endIndex == startIndex + windowSize
             currentRMS == RmsSum(channelData, startIndex,
                                  IF endIndex < Len(channelData) THEN endIndex
                                  ELSE Len(channelData))
         IN  (IF currentRMS < previousRMS THEN 1 ELSE 0)
                 + DecayCount(channelData, maxIndex, windowSize, i + 1, currentRMS)

\* A decay count whose previousRMS starts above every window's, so that the
\* first window counts as a decay.
hasDecayFromAbove(channelData, maxIndex, windowSize) ==
    DecayCount(channelData, maxIndex, windowSize, 0,
               windowSize * PeakLevel * PeakLevel + 1) >= 7

hasGoodDecay(channelData, maxIndex, windowSize) ==
    DecayCount(channelData, maxIndex, windowSize, 0, 0) >= 7

\* The loop of Check 5 over i .. end - 1, walked in two halves.
RECURSIVE TailEnergy(_, _, _)
TailEnergy(channelData, i, end) ==
    IF i >= end THEN 0
    ELSE IF end = i + 1 THEN Abs(channelData[i + 1])
    ELSE LET mid == (i + end) \div 2
         IN  TailEnergy(channelData, i, mid) + TailEnergy(channelData, mid, end)

\* averageTailAmplitude < maxAmplitude * 0.1, where tailEnergy / tailCount is
\* NaN for an empty tail and the comparison is then false.
hasSilentTail(channelData, maxIndex, windowSize, maxAmplitude) ==
    LET tailStartIndex == maxIndex + numWindows * windowSize
        tailCount == IF tailStartIndex < Len(channelData)
                     THEN Len(channelData) - tailStartIndex ELSE 0
    IN  /\ tailCount > 0
        /\ 10 * TailEnergy(channelData, tailStartIndex, Len(channelData))
               < maxAmplitude * tailCount

isLikelyDrumOneShot(f) ==
    IF f.size > TwoMB THEN FALSE
    ELSE IF ~f.decodes THEN FALSE
    ELSE LET channelData == ChannelData(f)
             sampleRate == f.sampleRate
         IN  IF Len(channelData) > 2 * sampleRate THEN FALSE
             ELSE LET peak == FindPeak(channelData, 0, Len(channelData))
                      windowSize == WindowSize(sampleRate)
                  IN  IF peak.maxIndex > AttackSamples(sampleRate) THEN FALSE
                      ELSE /\ hasGoodDecay(channelData, peak.maxIndex, windowSize)
                           /\ hasSilentTail(channelData, peak.maxIndex, windowSize,
                                            peak.maxAmplitude)

NoFile ==
    [pc |-> "none", sampleRate |-> 0, lead |-> 0, levels |-> << >>, rises |-> 0,
     tail |-> "silent", length |-> 0, size |-> 0, decodes |-> TRUE, verdict |-> FALSE]

\* A file begins: its sample rate, the silence before the peak, and the peak.
ShotOpen(sampleRate, lead) ==
    /\ shot.pc = "none"
    /\ shot' = [NoFile EXCEPT !.pc = "build", !.sampleRate = sampleRate, !.lead = lead,
                              !.levels = << PeakLevel >>]
    /\ UNCHANGED <<catalogVars, uiVars>>

\* The next window: one level down, the same level, or one level up (below the peak).
ShotWindow(step) ==
    /\ shot.pc = "build"
    /\ Len(shot.levels) < numWindows
    /\ LET level == Last(shot.levels) + step
       IN  /\ level >= 0
           /\ level < PeakLevel \/ step = 0
           /\ step >= 0 => shot.rises < MaxRises
           /\ shot' = [shot EXCEPT !.levels = Append(@, level),
                                   !.rises = IF step >= 0 THEN @ + 1 ELSE @]
    /\ UNCHANGED <<catalogVars, uiVars>>

\* The file ends with the last window, during a decay or after the ten windows.
ShotEnd ==
    /\ shot.pc = "build"
    /\ shot.rises = 0 \/ Len(shot.levels) = numWindows
    /\ shot' = [shot EXCEPT !.pc = "file", !.size = TwoMB,
                            !.length = shot.lead + WindowFrames(shot)]
    /\ UNCHANGED <<catalogVars, uiVars>>

\* The file goes on after the ten windows with a tail up to the given duration.
ShotTail(tail, duration) ==
    /\ shot.pc = "build"
    /\ Len(shot.levels) = numWindows
    /\ tail = "silent" \/ duration = "1.5s"
    /\ shot' = [shot EXCEPT !.pc = "file", !.tail = tail, !.size = TwoMB,
                            !.length = Frames(duration, shot.sampleRate)]
    /\ UNCHANGED <<catalogVars, uiVars>>

\* The same audio in a file of more than 2 MB, or in a file that does not decode.
ShotSpoil(size, decodes) ==
    /\ shot.pc = "file"
    /\ shot.size = TwoMB /\ shot.decodes
    /\ shot.tail = "silent" /\ shot.length = Frames("1.5s", shot.sampleRate)
    /\ size > TwoMB \/ ~decodes
    /\ shot' = [shot EXCEPT !.size = size, !.decodes = decodes]
    /\ UNCHANGED <<catalogVars, uiVars>>

\* scanDirectory hands the file to the classifier.
Classify ==
    /\ shot.pc = "file"
    /\ shot' = [shot EXCEPT !.pc = "done", !.verdict = isLikelyDrumOneShot(shot)]
    /\ UNCHANGED <<catalogVars, uiVars>>


(***************************************************************************)
(* PianoKeys: the 24 keys, the racks, and the preset export.               *)
(***************************************************************************)

\* How many handleDownload invocations a session makes.
MaxDownloads == 2

INITIAL_KEYS ==
    << [note |-> "F2", isBlack |-> FALSE], [note |-> "F#2", isBlack |-> TRUE],
       [note |-> "G2", isBlack |-> FALSE], [note |-> "G#2", isBlack |-> TRUE],
       [note |-> "A3", isBlack |-> FALSE], [note |-> "A#3", isBlack |-> TRUE],
       [note |-> "B3", isBlack |-> FALSE], [note |-> "C3", isBlack |-> FALSE],
       [note |-> "C#3", isBlack |-> TRUE], [note |-> "D3", isBlack |-> FALSE],
       [note |-> "D#3", isBlack |-> TRUE], [note |-> "E3", isBlack |-> FALSE],
       [note |-> "F3", isBlack |-> FALSE], [note |-> "F#3", isBlack |-> TRUE],
       [note |-> "G3", isBlack |-> FALSE], [note |-> "G#3", isBlack |-> TRUE],
       [note |-> "A4", isBlack |-> FALSE], [note |-> "A#4", isBlack |-> TRUE],
       [note |-> "B4", isBlack |-> FALSE], [note |-> "C4", isBlack |-> FALSE],
       [note |-> "C#4", isBlack |-> TRUE], [note |-> "D4", isBlack |-> FALSE],
       [note |-> "D#4", isBlack |-> TRUE], [note |-> "E4", isBlack |-> FALSE] >>

\* A key without a sample: the field sample is undefined.
NoSample == [id |-> Undefined]

\* The keys as the component first renders them.
InitialKeys ==
    [k \in 1 .. Len(INITIAL_KEYS) |->
        [note |-> INITIAL_KEYS[k].note, sample |-> NoSample, isBlack |-> INITIAL_KEYS[k].isBlack]]

\* currentRack = null.
NoRack == [id |-> Undefined]

\* The notes a sample is dropped on.
DropNotes == {"F2", "G2"}

\* The name the user types into the download popover.
PresetNames == {"kit"}

\* noteMap of getMidiNoteNumber.
noteMap ==
    [n \in { INITIAL_KEYS[k].note : k \in 1 .. Len(INITIAL_KEYS) } |->
        CASE n = "F2" -> 53 [] n = "F#2" -> 54 [] n = "G2" -> 55 [] n = "G#2" -> 56
          [] n = "A3" -> 57 [] n = "A#3" -> 58 [] n = "B3" -> 59 [] n = "C3" -> 60
          [] n = "C#3" -> 61 [] n = "D3" -> 62 [] n = "D#3" -> 63 [] n = "E3" -> 64
          [] n = "F3" -> 65 [] n = "F#3" -> 66 [] n = "G3" -> 67 [] n = "G#3" -> 68
          [] n = "A4" -> 69 [] n = "A#4" -> 70 [] n = "B4" -> 71 [] n = "C4" -> 72
          [] n = "C#4" -> 73 [] n = "D4" -> 74 [] n = "D#4" -> 75 [] n = "E4" -> 76]

\* noteMap[note] || 60
getMidiNoteNumber(note) == IF note \in DOMAIN noteMap THEN noteMap[note] ELSE 60

\* keys.map(key => key.note === targetNote ? {...key, sample} : key)
WithSample(ks, targetNote, sample) ==
    [k \in 1 .. Len(ks) |->
        IF ks[k].note = targetNote THEN [ks[k] EXCEPT !.sample = sample] ELSE ks[k]]

\* keys.filter(key => key.sample)
MappedKeys(ks) == SelectSeq(ks, LAMBDA key : key.sample # NoSample)

\* The file getFile resolves to, as the disk holds it.
FileOf(sample) == << directoryHandles[sample.directoryId] >> \o Tail(sample.filePath)

\* The region of one mapped key.
Region(key) ==
    [sample |-> key.sample.name,
     hikey |-> getMidiNoteNumber(key.note),
     lokey |-> getMidiNoteNumber(key.note),
     framecount |-> key.sample.duration * key.sample.sampleRate]

\* mappedKeys.map(key => region)
Regions(mappedKeys) == [k \in 1 .. Len(mappedKeys) |-> Region(mappedKeys[k])]

\* An archive where the first file written under a name stays.
ZipFileKeepsFirst(files, name, data) ==
    [n \in DOMAIN files \cup {name} |-> IF n \in DOMAIN files THEN files[n] ELSE data]

\* presetFolder.file(name, data): a later file of the same name replaces the earlier.
ZipFile(files, name, data) == [n \in DOMAIN files \cup {name} |-> IF n = name THEN data ELSE files[n]]

\* crypto.randomUUID() of addDrumRack: an id no rack holds.
RackIds == { r.id : r \in drumRacks } \cup { currentRack.id } \cup { dl[i].newRack.id : i \in DOMAIN dl }

FreshRackId == Min((0 .. Cardinality(RackIds)) \ RackIds)

\* A configuration of the mapped keys alone.
MappedConfiguration(ks) ==
    [k \in 1 .. Len(MappedKeys(ks)) |->
        [note |-> MappedKeys(ks)[k].note, sample |-> MappedKeys(ks)[k].sample,
         isBlack |-> MappedKeys(ks)[k].isBlack]]

\* The configuration handleDownload and handleSave build from the keys they see.
Configuration(ks) ==
    [k \in 1 .. Len(ks) |-> [note |-> ks[k].note, sample |-> ks[k].sample, isBlack |-> ks[k].isBlack]]

\* The record addDrumRack puts.
addDrumRack(name, configuration) ==
    [id |-> FreshRackId, name |-> name, keys |-> configuration, createdAt |-> clock]

\* What updateDrumRack leaves in the store: the rack with a new configuration,
\* or the store as it was when the rack is not found.
updateDrumRack(id, configuration) ==
    { IF r.id = id THEN [r EXCEPT !.keys = configuration] ELSE r : r \in drumRacks }

DlIdle ==
    [pc |-> "idle", keys |-> << >>, presetName |-> "", currentRack |-> NoRack,
     newRack |-> NoRack, i |-> 0, files |-> EmptyMap, regions |-> << >>, result |-> "none"]

PkIdle == [error |-> Null, presetName |-> "", rackName |-> ""]

\* Object.values(ref.current)
Values(ref) == { ref[note] : note \in DOMAIN ref }

\* A player or buffer that new Tone.Player / new Tone.ToneAudioBuffer creates.
FreshTone(live, ref) == Min((1 .. Cardinality(live \cup Values(ref)) + 1) \ (live \cup Values(ref)))

\* No player and no buffer: playersRef.current = {}; buffersRef.current = {}
NoRefs == [note \in {} |-> 0]

NoTone == [players |-> {}, buffers |-> {}]

\* if (ref.current[note]) { ref.current[note].dispose(); delete ref.current[note]; }
Deleted(ref, note) == [n \in DOMAIN ref \ {note} |-> ref[n]]

\* ref.current[note] = object
Registered(ref, note, object) ==
    [n \in DOMAIN ref \cup {note} |-> IF n = note THEN object ELSE ref[n]]

\* dispose() on every player and every buffer of the refs, which are then emptied.
DisposeAll ==
    /\ tone' = [players |-> tone.players \ Values(playersRef),
                buffers |-> tone.buffers \ Values(buffersRef)]
    /\ playersRef' = NoRefs
    /\ buffersRef' = NoRefs

\* handleDrop: the sample is fetched and decoded, then the key takes it; on a
\* failure the error is shown and the key keeps what it had. The player and
\* the buffer of the key are disposed first; the new player is registered,
\* the new buffer is not.
handleDrop(sample, targetNote) ==
    /\ Called
    /\ LET oldPlayers == IF targetNote \in DOMAIN playersRef THEN {playersRef[targetNote]} ELSE {}
           oldBuffers == IF targetNote \in DOMAIN buffersRef THEN {buffersRef[targetNote]} ELSE {}
           players == Deleted(playersRef, targetNote)
           buffer == FreshTone(tone.buffers \ oldBuffers, Deleted(buffersRef, targetNote))
           player == FreshTone(tone.players \ oldPlayers, players)
       IN  /\ buffersRef' = Deleted(buffersRef, targetNote)
           /\ IF getFile(sample.filePath, sample.directoryId) = "file"
                 /\ fstate[FileOf(sample)] # "corrupt"
              THEN /\ keys' = WithSample(keys, targetNote, sample)
                   /\ pk' = [pk EXCEPT !.error = Null]
                   /\ playersRef' = Registered(players, targetNote, player)
                   /\ tone' = [players |-> (tone.players \ oldPlayers) \cup {player},
                               buffers |-> (tone.buffers \ oldBuffers) \cup {buffer}]
              ELSE /\ pk' = [pk EXCEPT !.error = "Failed to load sample"]
                   /\ playersRef' = players
                   /\ tone' = [players |-> tone.players \ oldPlayers,
                               buffers |-> tone.buffers \ oldBuffers]
                   /\ UNCHANGED keys
    /\ UNCHANGED <<catalogVarsButCalls, shot, currentRack, drumRacks, dl, am, aud, cz, helperVars>>

\* The Clear button.
handleClear ==
    /\ Called
    /\ currentRack # NoRack \/ MappedKeys(keys) # << >>
    /\ keys' = InitialKeys
    /\ currentRack' = NoRack
    /\ pk' = [pk EXCEPT !.rackName = ""]
    /\ DisposeAll
    /\ UNCHANGED <<catalogVarsButCalls, shot, drumRacks, dl, am, aud, cz, helperVars>>

\* handleSave: the current rack is updated, or a rack is added under the name
\* typed into the save popover; currentRack stays what it was.
handleSave(name) ==
    /\ Called
    /\ MappedKeys(keys) # << >>
    /\ IF currentRack # NoRack
       THEN /\ drumRacks' = updateDrumRack(currentRack.id, Configuration(keys))
            /\ pk' = [pk EXCEPT !.error =
                         IF currentRack.id \in { r.id : r \in drumRacks }
                         THEN Null ELSE "Failed to save drum rack"]
       ELSE /\ drumRacks' = drumRacks \cup {addDrumRack(name, Configuration(keys))}
            /\ pk' = [pk EXCEPT !.error = Null, !.rackName = ""]
    /\ UNCHANGED <<catalogVarsButCalls, shot, keys, currentRack, dl, am, aud, cz, helperVars, toneVars>>

\* A rack of the load popover is clicked: each layout key takes the rack's key
\* of the same note, if the rack has one.
LoadedKeys(rack) ==
    [k \in 1 .. Len(InitialKeys) |->
        LET found == { j \in 1 .. Len(rack.keys) : rack.keys[j].note = InitialKeys[k].note }
        IN  IF found # {} THEN rack.keys[Min(found)] ELSE InitialKeys[k]]

handleLoad(rack) ==
    /\ Called
    /\ keys' = LoadedKeys(rack)
    /\ currentRack' = rack
    /\ pk' = [pk EXCEPT !.rackName = rack.name]
    /\ UNCHANGED <<catalogVarsButCalls, shot, drumRacks, dl, am, aud, cz, helperVars, toneVars>>

\* handleDownloadClick and the start of handleDownload: the invocation sees the
\* keys, presetName and currentRack of the render it was created in.
DownloadStart(slot, name) ==
    /\ dl[slot].pc = "idle"
    /\ MappedKeys(keys) # << >>
    /\ \A i \in DOMAIN dl : i < slot => dl[i].pc # "idle"
    /\ LET presetName == IF currentRack # NoRack \/ pk.presetName # "" THEN pk.presetName ELSE name
       IN  /\ dl' = [dl EXCEPT ![slot] =
                        [DlIdle EXCEPT !.pc = IF currentRack = NoRack THEN "addDrumRack" ELSE "getFile",
                                       !.keys = keys, !.presetName = presetName,
                                       !.currentRack = currentRack]]
           /\ pk' = [pk EXCEPT !.presetName =
                        IF currentRack # NoRack THEN currentRack.name ELSE presetName]
    /\ UNCHANGED <<catalogVars, shot, keys, currentRack, drumRacks, am, aud, cz, helperVars, toneVars>>

\* await storage.addDrumRack(presetName.trim(), configuration)
DownloadAddRack(slot) ==
    /\ dl[slot].pc = "addDrumRack"
    /\ LET newRack == addDrumRack(dl[slot].presetName, Configuration(dl[slot].keys))
       IN  /\ drumRacks' = drumRacks \cup {newRack}
           /\ dl' = [dl EXCEPT ![slot].pc = "getDrumRacks", ![slot].newRack = newRack]
    /\ UNCHANGED <<catalogVars, shot, keys, currentRack, pk, am, aud, cz, helperVars, toneVars>>

\* setDrumRacks(await storage.getDrumRacks()); setCurrentRack(newRack); setRackName
DownloadSetRack(slot) ==
    /\ dl[slot].pc = "getDrumRacks"
    /\ currentRack' = dl[slot].newRack
    /\ pk' = [pk EXCEPT !.rackName = dl[slot].newRack.name]
    /\ dl' = [dl EXCEPT ![slot].pc = "getFile"]
    /\ UNCHANGED <<catalogVars, shot, keys, drumRacks, am, aud, cz, helperVars, toneVars>>

\* One turn of the loop over the mapped keys: the file goes into the archive,
\* or the error is shown and handleDownload returns.
DownloadGetFile(slot) ==
    /\ dl[slot].pc = "getFile"
    /\ dl[slot].i < Len(MappedKeys(dl[slot].keys))
    /\ LET key == MappedKeys(dl[slot].keys)[dl[slot].i + 1]
       IN  IF getFile(key.sample.filePath, key.sample.directoryId) = "file"
           THEN /\ dl' = [dl EXCEPT ![slot].i = @ + 1,
                                    ![slot].files = ZipFile(@, key.sample.name, FileOf(key.sample))]
                /\ UNCHANGED pk
           ELSE /\ dl' = [dl EXCEPT ![slot].pc = "returned", ![slot].result = "error"]
                /\ pk' = [pk EXCEPT !.error = "Failed to add file to zip"]
    /\ UNCHANGED <<catalogVars, shot, keys, currentRack, drumRacks, am, aud, cz, helperVars, toneVars>>

\* The regions, patch.json, the archive and the download.
DownloadGenerate(slot) ==
    /\ dl[slot].pc = "getFile"
    /\ dl[slot].i = Len(MappedKeys(dl[slot].keys))
    /\ dl' = [dl EXCEPT ![slot].pc = "returned", ![slot].result = "downloaded",
                        ![slot].regions = Regions(MappedKeys(dl[slot].keys))]
    /\ pk' = [pk EXCEPT !.presetName = ""]
    /\ UNCHANGED <<catalogVars, shot, keys, currentRack, drumRacks, am, aud, cz, helperVars, toneVars>>

(***************************************************************************)
(* PianoKeys: categorizeSample.                                            *)
(***************************************************************************)
\* How many words a file name is made of.
MaxWords == 2

\* The letters of the markers, with their upper case.
UpperOf ==
    [ch \in {"a", "b", "c", "d", "e", "h", "i", "k", "l", "m", "n", "o", "p", "r", "s", "t", "x", "y"} |->
        CASE ch = "a" -> "A"
          [] ch = "b" -> "B"
          [] ch = "c" -> "C"
          [] ch = "d" -> "D"
          [] ch = "e" -> "E"
          [] ch = "h" -> "H"
          [] ch = "i" -> "I"
          [] ch = "k" -> "K"
          [] ch = "l" -> "L"
          [] ch = "m" -> "M"
          [] ch = "n" -> "N"
          [] ch = "o" -> "O"
          [] ch = "p" -> "P"
          [] ch = "r" -> "R"
          [] ch = "s" -> "S"
          [] ch = "t" -> "T"
          [] ch = "x" -> "X"
          [] ch = "y" -> "Y"]

\* String.prototype.toLowerCase
toLowerCase(filename) ==
    [i \in 1 .. Len(filename) |->
        IF \E ch \in DOMAIN UpperOf : UpperOf[ch] = filename[i]
        THEN CHOOSE ch \in DOMAIN UpperOf : UpperOf[ch] = filename[i]
        ELSE filename[i]]

\* String.prototype.toUpperCase
toUpperCase(filename) ==
    [i \in 1 .. Len(filename) |->
        IF filename[i] \in DOMAIN UpperOf THEN UpperOf[filename[i]] ELSE filename[i]]

\* String.prototype.includes
includes(name, searchString) ==
    \E i \in 0 .. Len(name) - Len(searchString) :
        SubSeq(name, i + 1, i + Len(searchString)) = searchString

\* The words file names are made of, in lower case.
Words ==
    { <<"k", "i", "c", "k">>,
      <<"s", "n", "a", "r", "e">>,
      <<"r", "i", "m">>,
      <<"c", "l", "a", "p">>,
      <<"h", "i", "h", "a", "t">>,
      <<"h", "h">>,
      <<"h", "a", "t">>,
      <<"o", "p", "e", "n">>,
      <<"s", "h", "a", "k", "e", "r">>,
      <<"t", "o", "m">>,
      <<"c", "y", "m", "b", "a", "l">>,
      <<"c", "r", "a", "s", "h">>,
      <<"r", "i", "d", "e">>,
      <<"p", "e", "r", "c">>,
      <<"x">>,
      <<"_", "1">> }

\* The file names: up to MaxWords words, each in lower or in upper case.
RECURSIVE Filenames(_)
Filenames(n) ==
    IF n = 0 THEN { << >> }
    ELSE LET shorter == Filenames(n - 1)
         IN  shorter \cup { f \o w : f \in shorter, w \in Words \cup { toUpperCase(x) : x \in Words } }

Categories ==
    {"kick", "snare", "rim_clap", "closed_hihat", "open_hihat", "perc", "tom", "cymbal", "other"}

\* A categorizeSample that tests the file name as it is written.
categorizeSampleAsWritten(filename) ==
    LET name == filename
    IN  IF includes(name, <<"k", "i", "c", "k">>) THEN "kick"
        ELSE IF includes(name, <<"s", "n", "a", "r", "e">>) THEN "snare"
        ELSE IF includes(name, <<"r", "i", "m">>) \/ includes(name, <<"c", "l", "a", "p">>) THEN "rim_clap"
        ELSE IF includes(name, <<"h", "i", "h", "a", "t">>) \/ includes(name, <<"h", "h">>) \/ includes(name, <<"h", "a", "t">>)
             THEN IF includes(name, <<"o", "p", "e", "n">>) THEN "open_hihat" ELSE "closed_hihat"
        ELSE IF includes(name, <<"s", "h", "a", "k", "e", "r">>) THEN "closed_hihat"
        ELSE IF includes(name, <<"t", "o", "m">>) THEN "tom"
        ELSE IF includes(name, <<"c", "y", "m", "b", "a", "l">>) \/ includes(name, <<"c", "r", "a", "s", "h">>) \/ includes(name, <<"r", "i", "d", "e">>)
             THEN "cymbal"
        ELSE IF includes(name, <<"p", "e", "r", "c">>) THEN "perc"
        ELSE "other"

categorizeSample(filename) ==
    LET name == toLowerCase(filename)
    IN  IF includes(name, <<"k", "i", "c", "k">>) THEN "kick"
        ELSE IF includes(name, <<"s", "n", "a", "r", "e">>) THEN "snare"
        ELSE IF includes(name, <<"r", "i", "m">>) \/ includes(name, <<"c", "l", "a", "p">>) THEN "rim_clap"
        ELSE IF includes(name, <<"h", "i", "h", "a", "t">>) \/ includes(name, <<"h", "h">>) \/ includes(name, <<"h", "a", "t">>)
             THEN IF includes(name, <<"o", "p", "e", "n">>) THEN "open_hihat" ELSE "closed_hihat"
        ELSE IF includes(name, <<"s", "h", "a", "k", "e", "r">>) THEN "closed_hihat"
        ELSE IF includes(name, <<"t", "o", "m">>) THEN "tom"
        ELSE IF includes(name, <<"c", "y", "m", "b", "a", "l">>) \/ includes(name, <<"c", "r", "a", "s", "h">>) \/ includes(name, <<"r", "i", "d", "e">>)
             THEN "cymbal"
        ELSE IF includes(name, <<"p", "e", "r", "c">>) THEN "perc"
        ELSE "other"

CzIdle == [filename |-> << >>, category |-> Null]

\* categorizeSample is called on the file name.
Categorize ==
    /\ cz.category = Null
    /\ cz' = [cz EXCEPT !.category = categorizeSample(cz.filename)]
    /\ UNCHANGED <<catalogVars, shot, pianoVars, am, aud, helperVars, toneVars>>

(***************************************************************************)
(* PianoKeys: the auto-map (handleFolderDrop, handleRandomRack).           *)
(***************************************************************************)
\* How many picks of a run may take another sample than the first available.
MaxLatePicks == 1

\* How many loads of a run may end before an earlier task's load on their key.
MaxOvertakes == 1

\* How many files of a folder, its first ones, may be unreadable while the run
\* loads them.
MaxUnreadable == 2

\* The characters of the file names.
Chars ==
    [name \in {"Kick1", "Kick2", "Kick3", "SNARE1", "SNARE2", "rim1", "Clap1", "hat1", "hat2", "hat3", "hat4", "OpenHat1", "perc1", "Tom1", "Tom2", "Tom3", "Tom4", "Tom5", "Tom6", "crash1", "crash2", "crash3", "Ride1", "Ride2", "x1", "x2", "k.wav", "h.wav", "t.wav"} |->
        CASE name = "Kick1" -> <<"K", "i", "c", "k", "1">>
          [] name = "Kick2" -> <<"K", "i", "c", "k", "2">>
          [] name = "Kick3" -> <<"K", "i", "c", "k", "3">>
          [] name = "SNARE1" -> <<"S", "N", "A", "R", "E", "1">>
          [] name = "SNARE2" -> <<"S", "N", "A", "R", "E", "2">>
          [] name = "rim1" -> <<"r", "i", "m", "1">>
          [] name = "Clap1" -> <<"C", "l", "a", "p", "1">>
          [] name = "hat1" -> <<"h", "a", "t", "1">>
          [] name = "hat2" -> <<"h", "a", "t", "2">>
          [] name = "hat3" -> <<"h", "a", "t", "3">>
          [] name = "hat4" -> <<"h", "a", "t", "4">>
          [] name = "OpenHat1" -> <<"O", "p", "e", "n", "H", "a", "t", "1">>
          [] name = "perc1" -> <<"p", "e", "r", "c", "1">>
          [] name = "Tom1" -> <<"T", "o", "m", "1">>
          [] name = "Tom2" -> <<"T", "o", "m", "2">>
          [] name = "Tom3" -> <<"T", "o", "m", "3">>
          [] name = "Tom4" -> <<"T", "o", "m", "4">>
          [] name = "Tom5" -> <<"T", "o", "m", "5">>
          [] name = "Tom6" -> <<"T", "o", "m", "6">>
          [] name = "crash1" -> <<"c", "r", "a", "s", "h", "1">>
          [] name = "crash2" -> <<"c", "r", "a", "s", "h", "2">>
          [] name = "crash3" -> <<"c", "r", "a", "s", "h", "3">>
          [] name = "Ride1" -> <<"R", "i", "d", "e", "1">>
          [] name = "Ride2" -> <<"R", "i", "d", "e", "2">>
          [] name = "x1" -> <<"x", "1">>
          [] name = "x2" -> <<"x", "2">>
          [] name = "k.wav" -> <<"k", ".", "w", "a", "v">>
          [] name = "h.wav" -> <<"h", ".", "w", "a", "v">>
          [] name = "t.wav" -> <<"t", ".", "w", "a", "v">>]

\* A sample of a dropped folder.
FolderSample(n, name) == [id |-> 100 + n, name |-> name]

\* Two kicks, two snares, two rims or claps, four closed hihats, one open
\* hihat, one perc, six toms, five cymbals and one other sample: 24 file names.
FullFolder ==
    << FolderSample(1, "Kick1"), FolderSample(2, "Kick2"), FolderSample(3, "SNARE1"),
       FolderSample(4, "SNARE2"), FolderSample(5, "rim1"), FolderSample(6, "Clap1"),
       FolderSample(7, "hat1"), FolderSample(8, "hat2"), FolderSample(9, "hat3"),
       FolderSample(10, "hat4"), FolderSample(11, "OpenHat1"), FolderSample(12, "perc1"),
       FolderSample(13, "Tom1"), FolderSample(14, "Tom2"), FolderSample(15, "Tom3"),
       FolderSample(16, "Tom4"), FolderSample(17, "Tom5"), FolderSample(18, "Tom6"),
       FolderSample(19, "crash1"), FolderSample(20, "crash2"), FolderSample(21, "crash3"),
       FolderSample(22, "Ride1"), FolderSample(23, "Ride2"), FolderSample(24, "x1") >>

\* A folder of three kicks, a tom, a cymbal and two other samples.
SmallFolder ==
    << FolderSample(1, "Kick1"), FolderSample(2, "Kick2"), FolderSample(3, "Kick3"),
       FolderSample(13, "Tom1"), FolderSample(19, "crash1"),
       FolderSample(24, "x1"), FolderSample(25, "x2") >>

\* A folder whose subfolders hold two different files of one name.
TwinFolder ==
    << FolderSample(1, "Kick1"), FolderSample(31, "Kick1"), FolderSample(24, "x1"),
       FolderSample(32, "x1") >>

Folders == { FullFolder, SmallFolder, TwinFolder, << >> }

\* The slot tasks in the order Promise.all is handed them: the key (counted
\* from 1) and the categories of each.
SlotTasks ==
    [t \in 1 .. 29 |->
        IF t <= 2 THEN [keyIndex |-> t, categories |-> <<"kick">>]
        ELSE IF t <= 4 THEN [keyIndex |-> t, categories |-> <<"snare">>]
        ELSE IF t <= 6 THEN [keyIndex |-> t, categories |-> <<"rim_clap">>]
        ELSE IF t <= 10 THEN [keyIndex |-> t, categories |-> <<"closed_hihat">>]
        ELSE IF t = 11 THEN [keyIndex |-> t, categories |-> <<"open_hihat">>]
        ELSE IF t = 12 THEN [keyIndex |-> t, categories |-> <<"perc">>]
        ELSE IF t <= 18 THEN [keyIndex |-> t, categories |-> <<"tom">>]
        ELSE IF t <= 23 THEN [keyIndex |-> t - 5, categories |-> <<"cymbal">>]
        ELSE [keyIndex |-> t - 5, categories |-> <<"perc", "other">>]]

\* A fallback to the kicks.
fallbackToKick == "kick"

\* assignSample's default fallbackCategory.
fallbackCategory == "other"

\* samples.map(sample => ({file: sample, category: categorizeSample(sample.name)}))
Categorized(folder) ==
    [i \in 1 .. Len(folder) |->
        [file |-> folder[i], category |-> categorizeSample(Chars[folder[i].name])]]

\* categories.flatMap(cat => categorizedSamples[cat]), whatever was used.
RECURSIVE flatMap(_, _)
flatMap(categories, categorizedSamples) ==
    IF categories = << >> THEN << >>
    ELSE SelectSeq(categorizedSamples, LAMBDA x : x.category = categories[1])
         \o flatMap(Tail(categories), categorizedSamples)

\* An availableSamples that keeps the samples already used.
availableWithUsed(categories, categorizedSamples, usedSamples) ==
    flatMap(categories, categorizedSamples)

\* categories.flatMap(...).filter(s => !usedSamples.has(s.file.name))
availableSamples(categories, categorizedSamples, usedSamples) ==
    SelectSeq(flatMap(categories, categorizedSamples), LAMBDA x : x.file.name \notin usedSamples)

\* A load that clears the key when the file cannot be read.
LoadedOrCleared(newKeys, keyIndex, sample, readable) ==
    [newKeys EXCEPT ![keyIndex].sample = IF readable THEN sample ELSE NoSample]

\* The try block of assignSample after its awaits: the key takes the sample,
\* or the error is logged and the key is left alone.
Loaded(newKeys, keyIndex, sample, readable) ==
    IF readable THEN [newKeys EXCEPT ![keyIndex].sample = sample] ELSE newKeys

AmIdle ==
    [pc |-> "idle", random |-> FALSE, samples |-> << >>, unreadable |-> {}, startKeys |-> << >>,
     newKeys |-> << >>, usedSamples |-> {}, task |-> 0, late |-> 0,
     picked |-> << >>, tried |-> << >>, pending |-> {}, overtakes |-> 0]

\* handleFolderDrop (or handleRandomRack, when random) up to the first slot
\* task: an empty folder is reported, otherwise the samples are categorized and
\* newKeys is a copy of the keys of this render.
AutoMapStart(folder, random, unreadable) ==
    /\ Called
    /\ am.pc \in {"idle", "settled"}
    /\ IF Len(folder) = 0
       THEN /\ pk' = [pk EXCEPT !.error = IF random THEN "No samples found"
                                           ELSE "No samples found in folder"]
            /\ UNCHANGED am
       ELSE /\ am' = [AmIdle EXCEPT !.pc = "assignSample", !.random = random,
                                    !.samples = Categorized(folder), !.unreadable = unreadable,
                                    !.startKeys = keys, !.newKeys = keys, !.task = 1,
                                    !.picked = [t \in 1 .. Len(SlotTasks) |-> NoSample],
                                    !.tried = [t \in 1 .. Len(SlotTasks) |-> << >>]]
            /\ pk' = IF random THEN pk ELSE [pk EXCEPT !.error = Null]
    /\ IF random THEN DisposeAll ELSE UNCHANGED toneVars
    /\ UNCHANGED <<catalogVarsButCalls, shot, keys, currentRack, drumRacks, dl, aud, cz, helperVars>>

\* The next slot task up to its first await, in the turn that issues all of
\* them: it picks among the available samples of its categories and marks the
\* name used; with none available it tries the fallback category once.
AssignSample(choice) ==
    /\ am.pc = "assignSample"
    /\ choice = 1 \/ am.late < MaxLatePicks
    /\ LET task == SlotTasks[am.task]
           first == availableSamples(task.categories, am.samples, am.usedSamples)
           fallback == task.categories[1] # fallbackCategory /\ first = << >>
           availableNow == IF fallback
                           THEN availableSamples(<<fallbackCategory>>, am.samples, am.usedSamples)
                           ELSE first
           tried == IF fallback THEN << task.categories, <<fallbackCategory>> >>
                    ELSE << task.categories >>
           last == am.task = Len(SlotTasks)
       IN  IF availableNow # << >>
           THEN /\ choice \in 1 .. Len(availableNow)
                /\ am' = [am EXCEPT !.usedSamples = @ \cup {availableNow[choice].file.name},
                                    !.picked[am.task] = availableNow[choice].file,
                                    !.tried[am.task] = tried,
                                    !.pending = @ \cup {am.task},
                                    !.late = IF choice = 1 THEN @ ELSE @ + 1,
                                    !.task = @ + 1,
                                    !.pc = IF last THEN "Promise.all" ELSE @]
           ELSE /\ choice = 1
                /\ am' = [am EXCEPT !.tried[am.task] = tried,
                                    !.task = @ + 1,
                                    !.pc = IF last THEN "Promise.all" ELSE @]
    /\ UNCHANGED <<catalogVars, shot, pianoVars, aud, cz, helperVars, toneVars>>

\* The load of one slot task ends. Loads of different keys do not touch each
\* other's entry of newKeys, so the keys are taken in their order; the two
\* tasks of one key end in either order.
LoadDone(t) ==
    /\ am.pc = "Promise.all"
    /\ t \in am.pending
    /\ \A u \in am.pending : SlotTasks[t].keyIndex <= SlotTasks[u].keyIndex
    /\ LET overtakes == \E u \in am.pending : u < t /\ SlotTasks[u].keyIndex = SlotTasks[t].keyIndex
           readable == am.picked[t].id \notin am.unreadable
           note == am.newKeys[SlotTasks[t].keyIndex].note
           buffer == FreshTone(tone.buffers, buffersRef)
           player == FreshTone(tone.players, playersRef)
       IN  /\ overtakes => am.overtakes < MaxOvertakes
           /\ am' = [am EXCEPT !.pending = @ \ {t},
                               !.overtakes = IF overtakes THEN @ + 1 ELSE @,
                               !.newKeys = Loaded(@, SlotTasks[t].keyIndex, am.picked[t],
                                                  readable)]
           /\ IF readable
              THEN /\ buffersRef' = Registered(buffersRef, note, buffer)
                   /\ playersRef' = Registered(playersRef, note, player)
                   /\ tone' = [players |-> tone.players \cup {player},
                               buffers |-> tone.buffers \cup {buffer}]
              ELSE UNCHANGED toneVars
    /\ UNCHANGED <<catalogVars, shot, pianoVars, aud, cz, helperVars>>

\* Promise.all has resolved: setKeys(newKeys), and handleRandomRack leaves no
\* current rack.
AutoMapSettle ==
    /\ am.pc = "Promise.all"
    /\ am.pending = {}
    /\ keys' = am.newKeys
    /\ currentRack' = IF am.random THEN NoRack ELSE currentRack
    /\ pk' = IF am.random THEN [pk EXCEPT !.rackName = ""] ELSE pk
    /\ am' = [am EXCEPT !.pc = "settled"]
    /\ UNCHANGED <<catalogVars, shot, drumRacks, dl, aud, cz, helperVars, toneVars>>

(***************************************************************************)
(* DirectoryBrowser: the audition of a sample.                             *)
(***************************************************************************)
\* How many samples the user clicks in a session.
MaxAuditions == 3

\* playerRef.current = null
NoPlayer == 0

AudIdle ==
    [runs |-> [run \in 1 .. MaxAuditions |-> [pc |-> "idle", sample |-> NoSample, player |-> NoPlayer]],
     players |-> << >>,
     current |-> NoPlayer,
     running |-> FALSE]

\* player.stop(); player.dispose()
Disposed(players, player) ==
    [p \in DOMAIN players |->
        IF p = player THEN [players[p] EXCEPT !.stopped = TRUE, !.disposed = TRUE] ELSE players[p]]

\* playSample up to its first await: the previous player, if there is one, is
\* stopped and disposed, and the file is asked for.
PlayStart(run, sample) ==
    /\ aud.runs[run].pc = "idle"
    /\ \A r \in 1 .. MaxAuditions : r < run => aud.runs[r].pc # "idle"
    /\ aud' = [aud EXCEPT !.runs[run] = [pc |-> "getFile", sample |-> sample, player |-> NoPlayer],
                          !.players = IF aud.current # NoPlayer
                                      THEN Disposed(aud.players, aud.current) ELSE aud.players]
    /\ UNCHANGED <<catalogVars, shot, pianoVars, am, cz, helperVars, toneVars>>

\* The file arrives and is decoded, the player is created and becomes
\* playerRef.current; or the read fails and the error is logged.
PlayCreate(run) ==
    /\ aud.runs[run].pc = "getFile"
    /\ LET sample == aud.runs[run].sample
           player == Len(aud.players) + 1
       IN  IF /\ getFile(sample.filePath, sample.directoryId) = "file"
              /\ fstate[FileOf(sample)] # "corrupt"
           THEN aud' = [aud EXCEPT !.players = Append(@, [started |-> FALSE, stopped |-> FALSE,
                                                          disposed |-> FALSE]),
                                   !.current = player,
                                   !.runs[run].player = player,
                                   !.runs[run].pc = IF aud.running THEN "start" ELSE "Tone.start"]
           ELSE aud' = [aud EXCEPT !.runs[run].pc = "returned"]
    /\ UNCHANGED <<catalogVars, shot, pianoVars, am, cz, helperVars, toneVars>>

\* await Tone.start()
PlayResume(run) ==
    /\ aud.runs[run].pc = "Tone.start"
    /\ aud' = [aud EXCEPT !.running = TRUE, !.runs[run].pc = "start"]
    /\ UNCHANGED <<catalogVars, shot, pianoVars, am, cz, helperVars, toneVars>>

\* player.start()
PlayStarted(run) ==
    /\ aud.runs[run].pc = "start"
    /\ aud' = [aud EXCEPT !.players[aud.runs[run].player].started = TRUE,
                          !.runs[run].pc = "returned"]
    /\ UNCHANGED <<catalogVars, shot, pianoVars, am, cz, helperVars, toneVars>>

(***************************************************************************)
(* PianoKeys: getMidiNoteNumber, in its two versions.                      *)
(***************************************************************************)
\* The notes of the layout.
Notes == { INITIAL_KEYS[k].note : k \in 1 .. Len(INITIAL_KEYS) }

\* note.slice(0, -1) and Number.parseInt(note.slice(-1), 10) for the notes of the layout.
Spelling ==
    [n \in Notes |->
        CASE n = "F2" -> <<"F", 2>> [] n = "F#2" -> <<"F#", 2>> [] n = "G2" -> <<"G", 2>>
          [] n = "G#2" -> <<"G#", 2>> [] n = "A3" -> <<"A", 3>> [] n = "A#3" -> <<"A#", 3>>
          [] n = "B3" -> <<"B", 3>> [] n = "C3" -> <<"C", 3>> [] n = "C#3" -> <<"C#", 3>>
          [] n = "D3" -> <<"D", 3>> [] n = "D#3" -> <<"D#", 3>> [] n = "E3" -> <<"E", 3>>
          [] n = "F3" -> <<"F", 3>> [] n = "F#3" -> <<"F#", 3>> [] n = "G3" -> <<"G", 3>>
          [] n = "G#3" -> <<"G#", 3>> [] n = "A4" -> <<"A", 4>> [] n = "A#4" -> <<"A#", 4>>
          [] n = "B4" -> <<"B", 4>> [] n = "C4" -> <<"C", 4>> [] n = "C#4" -> <<"C#", 4>>
          [] n = "D4" -> <<"D", 4>> [] n = "D#4" -> <<"D#", 4>> [] n = "E4" -> <<"E", 4>>]

\* noteMap of the version of getMidiNoteNumber that computes from the spelling.
semitoneMap ==
    [n \in {"C", "C#", "D", "D#", "E", "F", "F#", "G", "G#", "A", "A#", "B"} |->
        CASE n = "C" -> 0 [] n = "C#" -> 1 [] n = "D" -> 2 [] n = "D#" -> 3
          [] n = "E" -> 4 [] n = "F" -> 5 [] n = "F#" -> 6 [] n = "G" -> 7
          [] n = "G#" -> 8 [] n = "A" -> 9 [] n = "A#" -> 10 [] n = "B" -> 11]

\* getMidiNoteNumber of components/piano-keys.tsx: noteMap[noteName] + (octave + 2) * 12
getMidiNoteNumberByOctave(note) ==
    LET noteName == Spelling[note][1]
        octave == Spelling[note][2]
    IN  semitoneMap[noteName] + (octave + 2) * 12

MidiIdle == [first |-> "F2", second |-> "F2", version |-> Null, numbers |-> << >>]

\* The regions of two mapped keys get their lokey/hikey from the table.
MidiByTable ==
    /\ midi.version = Null
    /\ midi' = [midi EXCEPT !.version = "table",
                            !.numbers = <<getMidiNoteNumber(midi.first),
                                          getMidiNoteNumber(midi.second)>>]
    /\ UNCHANGED <<catalogVars, shot, pianoVars, am, aud, cz, wav, clip, sel, toneVars>>

\* The regions of two mapped keys get their lokey/hikey from the spelling.
MidiByOctave ==
    /\ midi.version = Null
    /\ midi' = [midi EXCEPT !.version = "octave",
                            !.numbers = <<getMidiNoteNumberByOctave(midi.first),
                                          getMidiNoteNumberByOctave(midi.second)>>]
    /\ UNCHANGED <<catalogVars, shot, pianoVars, am, aud, cz, wav, clip, sel, toneVars>>

(***************************************************************************)
(* PianoKeys: audioBufferToWav.  Sample values are counted in halves       *)
(* (2 is 1.0), which the 16-bit scaling keeps apart.                       *)
(***************************************************************************)
\* buffer.length of the buffers handed over.
BufferLengths == {0, 1, 44, 45, 46}

\* The shapes of channel data handed over.
Waves == {"ramp", "loud", "silent"}

\* The values a ramp runs through, from -2.0 to 2.0.
RampValues == <<-4, -2, -1, 0, 1, 2, 4>>

\* buffer.getChannelData(i)[p]
getChannelData(buffer, i, p) ==
    CASE buffer.wave = "ramp" -> RampValues[((p + i) % Len(RampValues)) + 1]
      [] buffer.wave = "loud" -> IF i = 0 THEN 4 ELSE -4
      [] buffer.wave = "silent" -> 0

\* Math.max(-1, Math.min(1, x))
Clamped(x) == IF x > 2 THEN 2 ELSE IF x < -2 THEN -2 ELSE x

\* sample < 0 ? sample * 0x8000 : sample * 0x7fff, as setInt16 stores it
\* (the fraction dropped, the value kept to 16 bits).
Int16(x) ==
    LET scaled == IF x < 0 THEN -((-x * 32768) \div 2) ELSE (x * 32767) \div 2
    IN  ((scaled + 32768) % 65536) - 32768

\* const length = buffer.length * numOfChan * 2
DataBytes(buffer) == buffer.length * buffer.numberOfChannels * 2

\* The 13 fields of the header, as the sizes setUint32/setUint16 advance pos by.
HeaderFields(buffer) ==
    LET numOfChan == buffer.numberOfChannels
        length == DataBytes(buffer)
    IN  << <<4, "RIFF">>, <<4, 36 + length>>, <<4, "WAVE">>, <<4, "fmt ">>, <<4, 16>>,
           <<2, 1>>, <<2, numOfChan>>, <<4, buffer.sampleRate>>,
           <<4, buffer.sampleRate * 2 * numOfChan>>, <<2, numOfChan * 2>>, <<2, 16>>,
           <<4, "data">>, <<4, length>> >>

RECURSIVE PosAfter(_, _)
\* pos after the first n fields were written.
PosAfter(fields, n) == IF n = 0 THEN 0 ELSE PosAfter(fields, n - 1) + fields[n][1]

WavIdle ==
    [pc |-> "idle", buffer |-> [numberOfChannels |-> 1, length |-> 0, sampleRate |-> 100,
                                wave |-> "silent"],
     pos |-> 0, offset |-> 0, header |-> << >>, data |-> << >>]

\* The ArrayBuffer is allocated (zeroed) and the header is written; pos is
\* the one variable both the header helpers and the data loop count with.
WavHeader ==
    /\ wav.pc = "start"
    /\ LET fields == HeaderFields(wav.buffer)
       IN  wav' = [wav EXCEPT !.pc = "data",
                              !.header = fields,
                              !.pos = PosAfter(fields, Len(fields)),
                              !.offset = 0,
                              !.data = [w \in 1 .. DataBytes(wav.buffer) \div 2 |-> 0]]
    /\ UNCHANGED <<catalogVars, shot, pianoVars, am, aud, cz, midi, clip, sel, toneVars>>

\* One round of while (pos < buffer.length): a word per channel, then pos++.
WavFrame ==
    /\ wav.pc = "data"
    /\ wav.pos < wav.buffer.length
    /\ LET numOfChan == wav.buffer.numberOfChannels
           first == wav.offset \div 2
       IN  wav' = [wav EXCEPT
                !.data = [w \in DOMAIN wav.data |->
                            IF w - 1 \in first .. first + numOfChan - 1
                            THEN Int16(Clamped(getChannelData(wav.buffer, w - 1 - first,
                                                              wav.pos)))
                            ELSE wav.data[w]],
                !.offset = wav.offset + 2 * numOfChan,
                !.pos = wav.pos + 1]
    /\ UNCHANGED <<catalogVars, shot, pianoVars, am, aud, cz, midi, clip, sel, toneVars>>

\* The loop ends and the Blob is returned.
WavDone ==
    /\ wav.pc = "data"
    /\ ~(wav.pos < wav.buffer.length)
    /\ wav' = [wav EXCEPT !.pc = "done"]
    /\ UNCHANGED <<catalogVars, shot, pianoVars, am, aud, cz, midi, clip, sel, toneVars>>

(***************************************************************************)
(* PianoKeys.handleDownload: the region of a key whose sample has edit     *)
(* parameters.  Times are counted in quarters of a second, which floating  *)
(* point holds exactly.                                                    *)
(***************************************************************************)
\* How many quarters of a second startTime and endTime may be.
MaxQuarters == 5

\* audioBuffer.sampleRate of the decoded files.
ClipRates == {6, 44100}

\* The edit parameters of a sample.
EditParams ==
    [startTime : 0 .. MaxQuarters, endTime : 0 .. MaxQuarters, fadeIn : {0, 1},
     isReversed : BOOLEAN]

\* Math.floor(time * sampleRate)
FloorFrames(time, sampleRate) == (time * sampleRate) \div 4

\* A length that rounds the duration of the range.
lengthOfDuration(params, sampleRate) ==
    FloorFrames(params.endTime - params.startTime, sampleRate)

\* const length = endSample - startSample
TrimLength(params, sampleRate) ==
    LET startSample == FloorFrames(params.startTime, sampleRate)
        endSample == FloorFrames(params.endTime, sampleRate)
    IN  endSample - startSample

\* The region returned for an edited sample.
EditedRegion(midiNote, name, length) ==
    [r \in {"fade.in", "fade.out", "framecount", "hikey", "lokey", "pan",
            "pitch.keycenter", "reverse", "sample.end", "transpose", "tune"} |->
        CASE r \in {"framecount", "sample.end"} -> length
          [] r \in {"hikey", "lokey"} -> midiNote
          [] r = "pitch.keycenter" -> 60
          [] r = "reverse" -> 0      \* reverse: false, written as 0
          [] OTHER -> 0]

ClipIdle ==
    [pc |-> "idle", note |-> "F2", params |-> [startTime |-> 0, endTime |-> 0, fadeIn |-> 0,
                                                isReversed |-> FALSE],
     decodes |-> TRUE, numberOfChannels |-> 1, sampleRate |-> 6, length |-> 0,
     file |-> << >>, region |-> << >>]

\* fetch, arrayBuffer and decodeAudioData; a throw is caught and the key gives null.
ClipDecode ==
    /\ clip.pc = "fetch"
    /\ clip' = [clip EXCEPT !.pc = IF clip.decodes THEN "decoded" ELSE "null"]
    /\ UNCHANGED <<catalogVars, shot, pianoVars, am, aud, cz, midi, wav, sel, toneVars>>

\* The range is computed and the new buffer created; createBuffer throws
\* on a length that is not positive, which is caught and gives null.
ClipTrim ==
    /\ clip.pc = "decoded"
    /\ LET length == TrimLength(clip.params, clip.sampleRate)
       IN  clip' = [clip EXCEPT !.pc = IF length > 0 THEN "trimmed" ELSE "null",
                                !.length = length]
    /\ UNCHANGED <<catalogVars, shot, pianoVars, am, aud, cz, midi, wav, sel, toneVars>>

\* audioBufferToWav(newBuffer) goes into the preset folder and the region is returned.
ClipWrite ==
    /\ clip.pc = "trimmed"
    /\ LET newBuffer == [numberOfChannels |-> clip.numberOfChannels, length |-> clip.length,
                         sampleRate |-> clip.sampleRate]
       IN  clip' = [clip EXCEPT !.pc = "region",
                                !.file = <<[header |-> HeaderFields(newBuffer),
                                            size |-> 44 + DataBytes(newBuffer)]>>,
                                !.region = <<EditedRegion(getMidiNoteNumberByOctave(clip.note),
                                                          "sample", clip.length)>>]
    /\ UNCHANGED <<catalogVars, shot, pianoVars, am, aud, cz, midi, wav, sel, toneVars>>

(***************************************************************************)
(* SampleList.analyzeSample and the page's selectedSample.                 *)
(***************************************************************************)
\* How many samples the user selects in a session.
MaxSelections == 3

SelIdle == [selectedSample |-> {}, runs |-> << >>]

\* analyzeSample(sample) up to its first await: onSampleSelect(sample).
AnalyzeStart(sample) ==
    /\ Len(sel.runs) < MaxSelections
    /\ sel' = [selectedSample |-> {sample},
               runs |-> Append(sel.runs, [sample |-> sample, pc |-> "pending"])]
    /\ UNCHANGED <<catalogVars, shot, pianoVars, am, aud, cz, midi, wav, clip, toneVars>>

\* The rest of a run: getFile and the decode, updateSample with what was
\* found, then onSampleSelect of the sample with its details; a throw on the
\* way is logged and nothing more happens.
AnalyzeDone(run) ==
    /\ run \in DOMAIN sel.runs
    /\ sel.runs[run].pc = "pending"
    /\ LET sample == sel.runs[run].sample
           stored == { x \in samples : x.id = sample.id }
           analyzed == /\ getFile(sample.filePath, sample.directoryId) = "file"
                       /\ fstate[FileOf(sample)] # "corrupt"
                       /\ stored # {}
       IN  IF analyzed
           THEN /\ samples' = PutSample(samples, UpdatedSample(CHOOSE x \in stored : TRUE,
                                                               Analyzed))
                /\ sel' = [selectedSample |-> {UpdatedSample(sample, Analyzed)},
                           runs |-> [sel.runs EXCEPT ![run].pc = "done"]]
           ELSE /\ sel' = [sel EXCEPT !.runs[run].pc = "failed"]
                /\ UNCHANGED samples
    /\ UNCHANGED <<directories, directoryHandles, directoryPermissions, fstate, denied,
                   osGranted, diskEdits, clock, calls, add, req, rem, upd, lst, gf, log, dz,
                   shot, pianoVars, am, aud, cz, midi, wav, clip, toneVars>>

\* The refs and Tone objects after the keys ks were assigned by an auto-map.
Mapped(ks) ==
    LET notes == { ks[k].note : k \in { j \in 1 .. Len(ks) : ks[j].sample # NoSample } }
        object == [note \in notes |-> CHOOSE k \in 1 .. Len(ks) : ks[k].note = note]
    IN  /\ playersRef = object
        /\ buffersRef = object
        /\ tone = [players |-> Values(object), buffers |-> Values(object)]

\* The refs and Tone objects after the keys ks were assigned by drops.
Dropped(ks) ==
    LET notes == { ks[k].note : k \in { j \in 1 .. Len(ks) : ks[j].sample # NoSample } }
        object == [note \in notes |-> CHOOSE k \in 1 .. Len(ks) : ks[k].note = note]
    IN  /\ playersRef = object
        /\ buffersRef = NoRefs
        /\ tone = [players |-> Values(object), buffers |-> Values(object)]

\* The helpers at rest.
HelperInit ==
    /\ midi = MidiIdle
    /\ wav = WavIdle
    /\ clip = ClipIdle
    /\ sel = SelIdle

\* The component as it first renders, over an empty rack store.
PianoInit ==
    /\ keys = InitialKeys
    /\ currentRack = NoRack
    /\ drumRacks = {}
    /\ pk = PkIdle
    /\ dl = [slot \in 1 .. MaxDownloads |-> DlIdle]
    /\ am = AmIdle
    /\ aud = AudIdle
    /\ cz = CzIdle
    /\ HelperInit
    /\ Mapped(keys)

CatalogInit ==
    /\ directories = {}
    /\ samples = {}
    /\ directoryHandles = EmptyMap
    /\ directoryPermissions = EmptyMap
    /\ fstate = [p \in AudioPaths |-> "oneshot"]
    /\ denied = {}
    /\ osGranted = {}
    /\ diskEdits = 0
    /\ clock = 0
    /\ calls = 0
    /\ add = AddIdle
    /\ req = ReqIdle
    /\ rem = RemIdle
    /\ upd = UpdIdle
    /\ lst = LstIdle
    /\ gf = GfIdle
    /\ log = << >>
    /\ dz = DzIdle(Null)

Init ==
    /\ CatalogInit
    /\ shot = NoFile
    /\ PianoInit

\* The calls that change the catalog.
CatalogCalls ==
    \/ AddStart
    \/ \E d \in DirectoryIds \cup DOMAIN directoryHandles : ReqStart(d)
    \/ \E d \in DirectoryIds : RemStart(d)
    \/ \E id \in AllIds : RemoveSample(id)
    \/ \E id \in AllIds : UpdStart(id)
    \/ \E p \in AudioPaths, d \in DirectoryIds, a \in {Decoded, NoDetails} : UpsertCall(p, d, a)

\* The continuations of the operations in flight.
CatalogSteps ==
    \/ AddPickerCancel
    \/ \E r \in Roots : AddPicked(r)
    \/ AddScan
    \/ AddProcess
    \/ AddFinish
    \/ AddDone
    \/ ReqPickerCancel
    \/ \E r \in Roots, g \in BOOLEAN : ReqPicked(r, g)
    \/ ReqScan
    \/ ReqRead
    \/ ReqPrune
    \/ ReqUpsert
    \/ ReqFinish
    \/ ReqDone
    \/ RemTx
    \/ RemDone
    \/ UpdPut
    \/ UpdDone

Disk ==
    \/ \E p \in AudioPaths, st \in FileStates : DiskEdit(p, st)
    \/ \E sd \in SubDirs : DiskDeny(sd)

\* Every interleaving, on an unchanging disk: a call may begin while other
\* operations are in flight.
Next == CatalogCalls \/ CatalogSteps

Spec == Init /\ [][Next]_vars

\* One operation at a time: a call begins only when none is in flight.
SeqNext == (AllIdle /\ CatalogCalls) \/ CatalogSteps \/ Disk

SpecSeq == Init /\ [][SeqNext]_vars

\* The calls of a session that only lists, reads and removes.
SessionCalls ==
    \/ AddStart
    \/ \E d \in DirectoryIds : ReqStart(d)
    \/ \E d \in DirectoryIds : RemStart(d)
    \/ LstStart
    \/ \E p \in AudioPaths, id \in AllIds : GetFile(p, id)

SessionSteps ==
    \/ AddPickerCancel
    \/ \E r \in Roots : AddPicked(r)
    \/ AddScan
    \/ AddProcess
    \/ AddFinish
    \/ AddDone
    \/ ReqPickerCancel
    \/ \E r \in Roots, g \in BOOLEAN : ReqPicked(r, g)
    \/ ReqScan
    \/ ReqRead
    \/ ReqPrune
    \/ ReqUpsert
    \/ ReqFinish
    \/ ReqDone
    \/ RemTx
    \/ RemDone
    \/ \E dir \in directories, t \in BOOLEAN : LstCheck(dir, t)
    \/ LstFinish
    \/ LstDone
    \/ GetFileDone

\* Sessions: one operation at a time, and the page may be loaded again.
SessionNext == (AllIdle /\ SessionCalls) \/ SessionSteps \/ Reload

SpecSession == Init /\ [][SessionNext]_vars

\* The classifier on its own, over the files built above.
ShotNext ==
    \/ \E sr \in SampleRates : \E lead \in Leads(sr) : ShotOpen(sr, lead)
    \/ \E step \in {-1, 0, 1} : ShotWindow(step)
    \/ ShotEnd
    \/ \E tail \in Tails, duration \in {"1.5s", "2s", "over2s"} : ShotTail(tail, duration)
    \/ \E size \in {TwoMB, TwoMB + 1}, decodes \in BOOLEAN : ShotSpoil(size, decodes)
    \/ Classify

SpecShot == Init /\ [][ShotNext]_vars

\* The sample the scan of A, then of B, stores for a file.
LibrarySample(p) ==
    [id |-> IF p = <<"A", "k.wav">> THEN 1 ELSE IF p = <<"A", "s", "h.wav">> THEN 2
            ELSE IF p = <<"A", "t.wav">> THEN 3 ELSE 5,
     name |-> Last(p), filePath |-> p, directoryPath |-> Front(p),
     directoryId |-> IF p[1] = "A" THEN 0 ELSE 4,
     duration |-> Decoded.duration, channels |-> Decoded.channels,
     sampleRate |-> Decoded.sampleRate, rmsLevel |-> 0,
     createdAt |-> IF p[1] = "A" THEN 1 ELSE 2]

\* The catalog after the folders A and B were added, one after the other.
Library ==
    /\ directories = { [id |-> 0, path |-> "A", handle |-> "A"],
                       [id |-> 4, path |-> "B", handle |-> "B"] }
    /\ samples = { LibrarySample(p) : p \in AudioPaths }
    /\ directoryHandles = MapSet(MapSet(EmptyMap, 0, "A"), 4, "B")
    /\ directoryPermissions = MapSet(MapSet(EmptyMap, 0, TRUE), 4, TRUE)
    /\ fstate = [p \in AudioPaths |-> "oneshot"]
    /\ denied = {}
    /\ osGranted = {"A", "B"}
    /\ diskEdits = 0
    /\ clock = 2
    /\ calls = 0
    /\ add = AddIdle
    /\ req = ReqIdle
    /\ rem = RemIdle
    /\ upd = UpdIdle
    /\ lst = LstIdle
    /\ gf = GfIdle
    /\ log = << >>
    /\ dz = DzIdle(Null)

\* PianoKeys over the library: drops, clear, save, load and downloads, while
\* folders are removed and files disappear.
LibraryInit == Library /\ shot = NoFile /\ PianoInit

\* The samples the browser lists at a folder's top level.
Droppable == { x \in samples : Len(x.filePath) = 2 }

\* A download is in flight.
Downloading == \E slot \in DOMAIN dl : dl[slot].pc \notin {"idle", "returned"}

\* While a download is in flight the user saves or downloads again, and does
\* nothing else.
PianoNext ==
    \/ ~Downloading /\ \E sample \in Droppable, targetNote \in DropNotes : handleDrop(sample, targetNote)
    \/ ~Downloading /\ handleClear
    \/ \E name \in PresetNames : handleSave(name)
    \/ ~Downloading /\ \E rack \in drumRacks : handleLoad(rack)
    \/ \E slot \in 1 .. MaxDownloads, name \in PresetNames : DownloadStart(slot, name)
    \/ \E slot \in 1 .. MaxDownloads : DownloadAddRack(slot)
    \/ \E slot \in 1 .. MaxDownloads : DownloadSetRack(slot)
    \/ \E slot \in 1 .. MaxDownloads : DownloadGetFile(slot)
    \/ \E slot \in 1 .. MaxDownloads : DownloadGenerate(slot)
    \/ \E d \in DirectoryIds : RemStart(d)
    \/ RemTx
    \/ RemDone
    \/ \E p \in AudioPaths : DiskEdit(p, "absent")

SpecPiano == LibraryInit /\ [][PianoNext]_vars

\* A mapping of two keys that no rack backs, and the saves and downloads of a
\* session over it.
ExportInit ==
    /\ Library
    /\ shot = NoFile
    /\ keys = WithSample(WithSample(InitialKeys, "F2", LibrarySample(<<"A", "k.wav">>)),
                         "G2", LibrarySample(<<"A", "t.wav">>))
    /\ currentRack = NoRack
    /\ drumRacks = {}
    /\ pk = PkIdle
    /\ dl = [slot \in 1 .. MaxDownloads |-> DlIdle]
    /\ am = AmIdle
    /\ aud = AudIdle
    /\ cz = CzIdle
    /\ HelperInit
    /\ Dropped(keys)

ExportNext ==
    \/ \E name \in PresetNames : handleSave(name)
    \/ \E slot \in 1 .. MaxDownloads, name \in PresetNames : DownloadStart(slot, name)
    \/ \E slot \in 1 .. MaxDownloads : DownloadAddRack(slot)
    \/ \E slot \in 1 .. MaxDownloads : DownloadSetRack(slot)
    \/ \E slot \in 1 .. MaxDownloads : DownloadGetFile(slot)
    \/ \E slot \in 1 .. MaxDownloads : DownloadGenerate(slot)

SpecExport == ExportInit /\ [][ExportNext]_vars

\* The samples of the library are clicked, one after the other or while an
\* earlier audition is still loading, while folders are removed and files
\* disappear.
AuditionNext ==
    \/ \E run \in 1 .. MaxAuditions, sample \in samples : PlayStart(run, sample)
    \/ \E run \in 1 .. MaxAuditions : PlayCreate(run)
    \/ \E run \in 1 .. MaxAuditions : PlayResume(run)
    \/ \E run \in 1 .. MaxAuditions : PlayStarted(run)
    \/ \E p \in AudioPaths : DiskEdit(p, "absent")

SpecAudition == LibraryInit /\ [][AuditionNext]_vars

\* categorizeSample on its own, over the file names built above.
CategorizeInit ==
    /\ CatalogInit
    /\ shot = NoFile
    /\ keys = InitialKeys
    /\ currentRack = NoRack
    /\ drumRacks = {}
    /\ pk = PkIdle
    /\ dl = [slot \in 1 .. MaxDownloads |-> DlIdle]
    /\ am = AmIdle
    /\ aud = AudIdle
    /\ cz \in [filename : Filenames(MaxWords), category : {Null}]
    /\ HelperInit
    /\ Mapped(keys)

CategorizeNext == Categorize

SpecCategorize == CategorizeInit /\ [][CategorizeNext]_vars

\* getMidiNoteNumber on its own, over every two keys of the layout.
MidiInit ==
    /\ CatalogInit
    /\ shot = NoFile
    /\ keys = InitialKeys
    /\ currentRack = NoRack
    /\ drumRacks = {}
    /\ pk = PkIdle
    /\ dl = [slot \in 1 .. MaxDownloads |-> DlIdle]
    /\ am = AmIdle
    /\ aud = AudIdle
    /\ cz = CzIdle
    /\ midi \in [first : Notes, second : Notes, version : {Null}, numbers : {<< >>}]
    /\ wav = WavIdle
    /\ clip = ClipIdle
    /\ sel = SelIdle
    /\ Mapped(keys)

MidiNext == MidiByTable \/ MidiByOctave

SpecMidi == MidiInit /\ [][MidiNext]_vars

\* audioBufferToWav on its own, over buffers of one or two channels.
WavInit ==
    /\ CatalogInit
    /\ shot = NoFile
    /\ keys = InitialKeys
    /\ currentRack = NoRack
    /\ drumRacks = {}
    /\ pk = PkIdle
    /\ dl = [slot \in 1 .. MaxDownloads |-> DlIdle]
    /\ am = AmIdle
    /\ aud = AudIdle
    /\ cz = CzIdle
    /\ midi = MidiIdle
    /\ \E buffer \in [numberOfChannels : {1, 2}, length : BufferLengths,
                      sampleRate : SampleRates, wave : Waves] :
            wav = [WavIdle EXCEPT !.pc = "start", !.buffer = buffer]
    /\ clip = ClipIdle
    /\ sel = SelIdle
    /\ Mapped(keys)

WavNext == WavHeader \/ WavFrame \/ WavDone

SpecWav == WavInit /\ [][WavNext]_vars

\* The export of one key with edit parameters, over the parameters and files.
ClipInit ==
    /\ CatalogInit
    /\ shot = NoFile
    /\ keys = InitialKeys
    /\ currentRack = NoRack
    /\ drumRacks = {}
    /\ pk = PkIdle
    /\ dl = [slot \in 1 .. MaxDownloads |-> DlIdle]
    /\ am = AmIdle
    /\ aud = AudIdle
    /\ cz = CzIdle
    /\ midi = MidiIdle
    /\ wav = WavIdle
    /\ \E params \in EditParams, sampleRate \in ClipRates, numOfChan \in {1, 2},
          decodes \in BOOLEAN :
            clip = [ClipIdle EXCEPT !.pc = "fetch", !.params = params,
                                    !.sampleRate = sampleRate, !.decodes = decodes,
                                    !.numberOfChannels = numOfChan]
    /\ sel = SelIdle
    /\ Mapped(keys)

ClipNext == ClipDecode \/ ClipTrim \/ ClipWrite

SpecClip == ClipInit /\ [][ClipNext]_vars

\* Selections in the sample list over the library, while files disappear or spoil.
SelectNext ==
    \/ \E sample \in samples : AnalyzeStart(sample)
    \/ \E run \in 1 .. MaxSelections : AnalyzeDone(run)
    \/ \E p \in AudioPaths, st \in {"absent", "corrupt"} : DiskEdit(p, st)

SpecSelect == LibraryInit /\ [][SelectNext]_vars

\* The keys an auto-map run finds: none assigned, or two assigned before.
StartKeys ==
    { InitialKeys,
      WithSample(WithSample(InitialKeys, "F#2", FolderSample(40, "x2")), "G3", FolderSample(41, "Tom1")) }

\* The files of a folder that cannot be read during a run.
Unreadable(folder) ==
    SUBSET { folder[i].id : i \in { j \in 1 .. Len(folder) : j <= MaxUnreadable } }

\* One auto-map run over a dropped folder or over the library.
AutoMapInit ==
    /\ CatalogInit
    /\ shot = NoFile
    /\ keys \in StartKeys
    /\ currentRack = NoRack
    /\ drumRacks = {}
    /\ pk = PkIdle
    /\ dl = [slot \in 1 .. MaxDownloads |-> DlIdle]
    /\ am = AmIdle
    /\ aud = AudIdle
    /\ cz = CzIdle
    /\ HelperInit
    /\ Mapped(keys)

AutoMapNext ==
    \/ /\ am.pc = "idle"
       /\ pk.error = Null
       /\ \E folder \in Folders, random \in BOOLEAN :
              \E unreadable \in Unreadable(folder) : AutoMapStart(folder, random, unreadable)
    \/ \E choice \in 1 .. Len(FullFolder) : AssignSample(choice)
    \/ \E t \in 1 .. Len(SlotTasks) : LoadDone(t)
    \/ AutoMapSettle

SpecAutoMap == AutoMapInit /\ [][AutoMapNext]_vars

\* The samples of a set in the order of their ids.
RECURSIVE InIdOrder(_)
InIdOrder(set) ==
    IF set = {} THEN << >>
    ELSE LET first == CHOOSE x \in set : \A y \in set : x.id <= y.id
         IN  << first >> \o InIdOrder(set \ {first})

\* handleRandomRack: the samples of all directories that last under 3 seconds.
allSamples ==
    InIdOrder({ x \in samples : x.duration # Undefined /\ x.duration # 0 /\ x.duration < 3 })

\* Nothing is in flight in PianoKeys.
Quiet == ~Downloading /\ am.pc \in {"idle", "settled"}

\* A session of drops, an auto-map over the library, clears, saves, loads and
\* a download, one after the other.
LayoutNext ==
    \/ Quiet /\ \E sample \in Droppable, targetNote \in DropNotes : handleDrop(sample, targetNote)
    \/ Quiet /\ handleClear
    \/ Quiet /\ \E name \in PresetNames : handleSave(name)
    \/ Quiet /\ \E rack \in drumRacks : handleLoad(rack)
    \/ Quiet /\ \E slot \in {1}, name \in PresetNames : DownloadStart(slot, name)
    \/ \E slot \in {1} : DownloadAddRack(slot)
    \/ \E slot \in {1} : DownloadSetRack(slot)
    \/ \E slot \in {1} : DownloadGetFile(slot)
    \/ \E slot \in {1} : DownloadGenerate(slot)
    \/ /\ Quiet
       /\ am.pc = "idle"
       /\ \E random \in BOOLEAN :
              \E unreadable \in Unreadable(allSamples) : AutoMapStart(allSamples, random, unreadable)
    \/ \E choice \in 1 .. Cardinality(samples) : AssignSample(choice)
    \/ \E t \in 1 .. Len(SlotTasks) : LoadDone(t)
    \/ AutoMapSettle

SpecLayout == LibraryInit /\ [][LayoutNext]_vars

(***************************************************************************)
(* The catalog's properties.                                               *)
(***************************************************************************)

\* C1 (SpecSeq): when removeDirectory(D) completes, no stored sample has
\* directoryId D, the directory record D is gone, and the samples of every
\* other directory are stored exactly as before.
C1_CascadeIntegrity ==
    [][ (rem.pc = "tx" /\ rem'.pc = "returned") =>
            /\ { s \in samples' : s.directoryId = rem.id } = {}
            /\ rem.id \notin { d.id : d \in directories' }
            /\ { s \in samples' : s.directoryId # rem.id }
                   = { s \in samples : s.directoryId # rem.id } ]_vars

\* removeDirectory has deleted the samples of its directory while another
\* directory's samples are stored.
C1_Witness ==
    /\ rem.pc = "returned"
    /\ rem.snapshot # {}
    /\ \E s \in samples : s.directoryId # rem.id

\* C2 (Spec): under every interleaving of removeDirectory with scans, upserts
\* and updates, once all operations have completed every stored sample's
\* directoryId is the id of a stored directory.
C2_NoOrphans == AllIdle => \A s \in samples : s.directoryId \in DirectoryIds

\* At most one record per (directoryId, filePath).
UniquePairs ==
    \A s, t \in samples : (s.directoryId = t.directoryId /\ s.filePath = t.filePath) => s = t

\* A pair stored before and after a step keeps its id and createdAt.
KeepsIdentity ==
    \A s \in samples : \A t \in samples' :
        (s.directoryId = t.directoryId /\ s.filePath = t.filePath)
            => (t.id = s.id /\ t.createdAt = s.createdAt)

\* C3 (SpecSeq): after any sequence of upsertSample calls and re-scans the
\* store holds at most one record per (directoryId, filePath), and an upsert of
\* a stored pair keeps the record's id and createdAt.
C3_UpsertIdempotence == [](UniquePairs) /\ [][KeepsIdentity]_vars

\* The re-scan has just upserted a pair that was stored earlier.
C3_Witness ==
    /\ req.pc = "upsert"
    /\ req.i > 0
    /\ \E s \in samples :
          /\ s.directoryId = req.id
          /\ s.filePath = req.entries[req.i].path
          /\ s.createdAt < clock
          /\ s \in req.existing

\* C4 (SpecSeq): after a successful requestDirectoryPermission(D) the paths of
\* the samples stored for D are exactly the paths the re-scan found, and every
\* sample stored before whose path was found is stored unchanged: same id,
\* createdAt and audio metadata.
C4_RescanReconciles ==
    (req.pc = "returned" /\ req.result = "true") =>
        /\ { s.filePath : s \in SamplesOf(req.id) } = PathsOf(req.entries)
        /\ \A s \in req.existing : s.filePath \in PathsOf(req.entries) => s \in samples

\* A successful re-scan that deleted one sample and kept an analyzed one.
C4_Witness ==
    /\ req.pc = "returned"
    /\ req.result = "true"
    /\ \E s \in req.existing : s.filePath \notin PathsOf(req.entries) /\ s \notin samples
    /\ \E s \in req.existing : s.filePath \in PathsOf(req.entries) /\ s.rmsLevel = Analyzed.rmsLevel

\* C5 as claimed (SpecSession): getFile fails with not-found whenever the
\* handle is not cached, and the cache holds a handle only while permission
\* for it is granted, so getFile on a directory reported without permission
\* fails with not-found.
C5_CachedOnlyWhileGranted ==
    /\ \A id \in DOMAIN directoryHandles : directoryHandles[id] \in osGranted
    /\ gf.pc = "returned" =>
          /\ gf.id \notin DOMAIN directoryHandles => gf.result = "Directory handle not found"
          /\ (gf.id \in DOMAIN directoryPermissions /\ ~directoryPermissions[gf.id])
                => gf.result = "Directory handle not found"

\* C5 as amended (SpecSession): getFile fails with not-found exactly when the
\* directory has no entry in the handle cache; removeDirectory drops the entry;
\* an entry whose handle has no permission makes getFile fail in the handle
\* lookup with the permission error instead.
C5_NotFoundIffNotCached ==
    /\ gf.pc = "returned" =>
          /\ gf.result = "Directory handle not found" <=> gf.id \notin DOMAIN directoryHandles
          /\ (gf.id \in DOMAIN directoryHandles /\ directoryHandles[gf.id] \notin osGranted)
                => gf.result = "NotAllowedError"
    /\ rem.pc = "returned" => rem.id \notin DOMAIN directoryHandles

\* getFile on a stored directory that getDirectories reported without
\* permission: the handle is cached and the lookup is refused.
C5_Witness ==
    /\ gf.pc = "returned"
    /\ gf.id \in DirectoryIds
    /\ gf.id \in DOMAIN directoryPermissions
    /\ ~directoryPermissions[gf.id]
    /\ gf.result = "NotAllowedError"

\* C6 (SpecSeq): cancelling the picker is a no-op: addDirectory returns null,
\* nothing is added to the stores or the handle cache, no progress event is
\* emitted, and no error is shown.
C6_CancelIsNoOp ==
    [][ /\ (add.pc = "picker" /\ add'.cause = "AbortError") =>
              /\ add'.result = "null"
              /\ UNCHANGED <<directories, samples, directoryHandles, log>>
        /\ (add.pc = "returned" /\ add.cause = "AbortError" /\ add'.pc = "idle") =>
              dz'.error = Null ]_vars

\* The events of the addDirectory run in progress, by type.
AddScanningEvents == SelectSeq(log, LAMBDA e : e.by = "add" /\ e.type = "scanning")

AddProcessingEvents == SelectSeq(log, LAMBDA e : e.by = "add" /\ e.type = "processing")

\* Every 'scanning' event precedes every 'processing' event; detectedCount
\* starts at 0 and rises by one per event; total is the final detectedCount and
\* processed starts at 0 and rises by one per event.
ProgressOrdered ==
    /\ \A i, j \in 1 .. Len(log) :
          (log[i].type = "processing" /\ log[j].type = "scanning") => j < i
    /\ \A k \in 1 .. Len(AddScanningEvents) : AddScanningEvents[k].detectedCount = k - 1
    /\ \A k \in 1 .. Len(AddProcessingEvents) :
          /\ AddProcessingEvents[k].total = Len(AddScanningEvents) - 1
          /\ AddProcessingEvents[k].processed = k - 1

\* C7 (SpecSeq): within one addDirectory run the progress events are ordered:
\* 'scanning' before 'processing', detectedCount rising by one from 0 also
\* across subdirectories, 'processing' with a constant total equal to the final
\* detectedCount and processed rising by one from 0 to total.
C7_ProgressOrdering ==
    /\ ProgressOrdered
    /\ (add.pc = "returned" /\ Len(AddProcessingEvents) > 0) =>
          AddProcessingEvents[Len(AddProcessingEvents)].processed
              = AddProcessingEvents[Len(AddProcessingEvents)].total

\* C8 (SpecSeq): a single file that fails to decode or analyze never aborts
\* addDirectory: once the directory is stored and enumerated, the failing file
\* is skipped in either phase, every other accepted file is cataloged and the
\* directory record is returned.
C8_FailingFileSkipped ==
    (add.pc = "returned" /\ add.cause \notin {"AbortError", "ConstraintError", "scan"}) =>
        /\ add.result = "directory"
        /\ \A k \in 1 .. Len(add.entries) :
              fstate[add.entries[k].path] \notin {"absent", "corrupt"}
                  => \E s \in SamplesOf(add.id) : s.filePath = add.entries[k].path

\* The accepted files of the tree under dirPath that lie outside the
\* subdirectories whose enumeration is refused.
ReachableShots(dirPath) ==
    { p \in AudioPaths :
         /\ p[1] = dirPath[1]
         /\ fstate[p] = "oneshot"
         /\ \A sd \in denied : SubSeq(p, 1, Len(sd)) # sd }

\* C9 (SpecSeq): when enumerating a subdirectory is refused during
\* scanDirectory, the scan does not raise and returns the accepted files of the
\* sibling and ancestor directories.
C9_DeniedBranchIsEmpty ==
    [][ (add.pc = "scan" /\ denied # {} /\ add'.pc # "scan") =>
            /\ add'.pc = "process"
            /\ PathsOf(add'.entries) = ReachableShots(<< add.handle >>) ]_vars

\* The sum of weight(|x|) over the frames of channelData at the positions S,
\* counted level by level.
RECURSIVE SumByLevel(_, _, _, _)
SumByLevel(channelData, S, squared, v) ==
    IF v = 0 THEN 0
    ELSE (IF squared THEN v * v ELSE v)
             * Cardinality({ i \in S : Abs(channelData[i]) = v })
         + SumByLevel(channelData, S, squared, v - 1)

\* The conditions under which a file is a one-shot: at most 2 MB, decodable, at
\* most 2 s, peak (the first frame of largest absolute value) within 50 ms, at
\* least 7 of the 9 steps between the ten 10 ms windows from the peak going
\* down in energy, and a tail whose mean absolute value is below a tenth of
\* the peak.
OneShotConditions(f) ==
    LET channelData == ChannelData(f)
        n == Len(channelData)
        windowSize == f.sampleRate \div 100
        peakAmplitude == CHOOSE a \in { Abs(channelData[i]) : i \in 1 .. n } :
                             \A i \in 1 .. n : Abs(channelData[i]) <= a
        peakFrame == CHOOSE i \in 1 .. n :
                         /\ Abs(channelData[i]) = peakAmplitude
                         /\ \A j \in 1 .. (i - 1) : Abs(channelData[j]) < peakAmplitude
        Window(w) == { i \in (peakFrame + w * windowSize)
                                 .. (peakFrame + (w + 1) * windowSize - 1) : i <= n }
        Energy(w) == SumByLevel(channelData, Window(w), TRUE, PeakLevel)
        decreases == Cardinality({ w \in 1 .. 9 : Energy(w) < Energy(w - 1) })
        tail == (peakFrame + 10 * windowSize) .. n
    IN  /\ f.size <= TwoMB
        /\ f.decodes
        /\ n <= 2 * f.sampleRate
        /\ peakFrame - 1 <= (5 * f.sampleRate) \div 100
        /\ decreases >= 7
        /\ tail # {}
        /\ 10 * SumByLevel(channelData, tail, FALSE, PeakLevel)
               < peakAmplitude * Cardinality(tail)

\* A 1.5 s buffer that decays from its peak through all ten windows into silence.
DecaysIntoSilence(f) ==
    /\ Len(f.levels) = numWindows
    /\ f.rises = 0
    /\ f.tail = "silent"
    /\ f.length = Frames("1.5s", f.sampleRate)
    /\ f.size <= TwoMB
    /\ f.decodes

LayoutIndex(note) == CHOOSE k \in 1 .. Len(INITIAL_KEYS) : INITIAL_KEYS[k].note = note

\* The layout is chromatic and its first key is MIDI note 53.
FixedMidi(note) == 52 + LayoutIndex(note)

\* The file a sample was scanned from.
SourceOf(sample) == sample.filePath

\* The exports that produced a download.
Downloaded == { slot \in DOMAIN dl : dl[slot].result = "downloaded" }

\* The regions are one per mapped key, in layout order, each on its key's
\* fixed MIDI number.
RegionsFollowLayout(slot) ==
    LET mappedKeys == MappedKeys(dl[slot].keys)
        regions == dl[slot].regions
    IN  /\ Len(regions) = Len(mappedKeys)
        /\ Len(mappedKeys) = Cardinality({ k \in 1 .. Len(dl[slot].keys) : dl[slot].keys[k].sample # NoSample })
        /\ \A k \in 1 .. Len(regions) :
              /\ regions[k].sample = mappedKeys[k].sample.name
              /\ regions[k].hikey = FixedMidi(mappedKeys[k].note)
              /\ regions[k].lokey = regions[k].hikey
        /\ \A j, k \in 1 .. Len(regions) : j < k => regions[j].hikey < regions[k].hikey

C12_FailureSkipsOneKey ==
    \A slot \in DOMAIN dl :
        dl[slot].pc = "returned" =>
            /\ dl[slot].result = "downloaded"
            /\ pk.error # "Failed to add file to zip"

\* The exports that persisted a rack.
Persisted == { slot \in DOMAIN dl : dl[slot].newRack # NoRack }

\* C13: over the saves and downloads of a session whose mapping starts with no
\* current rack, the downloads persist at most one rack between them.
C13_AtMostOneRack == Cardinality(Persisted) <= 1

(***************************************************************************)
(* The audition's properties.                                              *)
(***************************************************************************)
\* The players that were started and not disposed.
Sounding == { p \in DOMAIN aud.players : aud.players[p].started /\ ~aud.players[p].disposed }

\* C14: at most one audition player was started and not disposed, and every
\* player created for audition is the current one or was stopped and disposed.
C14_AuditionExclusive ==
    /\ Cardinality(Sounding) <= 1
    /\ \A p \in DOMAIN aud.players :
          p = aud.current \/ (aud.players[p].stopped /\ aud.players[p].disposed)

(***************************************************************************)
(* categorizeSample's properties.                                          *)
(***************************************************************************)
\* The name holds the word, whatever the case of its letters.
Holds(filename, word) ==
    \E i \in 0 .. Len(filename) - Len(word) :
        \A j \in 1 .. Len(word) :
            \/ filename[i + j] = word[j]
            \/ word[j] \in DOMAIN UpperOf /\ filename[i + j] = UpperOf[word[j]]

\* The rules in their priority order: the words that trigger a rule, and the
\* category it gives; the hihat rule gives open_hihat to a name that holds "open".
Rules ==
    << [words |-> {<<"k", "i", "c", "k">>}, category |-> "kick"],
       [words |-> {<<"s", "n", "a", "r", "e">>}, category |-> "snare"],
       [words |-> {<<"r", "i", "m">>, <<"c", "l", "a", "p">>}, category |-> "rim_clap"],
       [words |-> {<<"h", "i", "h", "a", "t">>, <<"h", "h">>, <<"h", "a", "t">>}, category |-> "hihat"],
       [words |-> {<<"s", "h", "a", "k", "e", "r">>}, category |-> "closed_hihat"],
       [words |-> {<<"t", "o", "m">>}, category |-> "tom"],
       [words |-> {<<"c", "y", "m", "b", "a", "l">>, <<"c", "r", "a", "s", "h">>, <<"r", "i", "d", "e">>}, category |-> "cymbal"],
       [words |-> {<<"p", "e", "r", "c">>}, category |-> "perc"] >>

\* The category of the earliest rule a name matches, or other.
FirstMatch(filename) ==
    LET matching == { r \in 1 .. Len(Rules) : \E w \in Rules[r].words : Holds(filename, w) }
        first == CHOOSE r \in matching : \A q \in matching : r <= q
    IN  IF matching = {} THEN "other"
        ELSE IF Rules[first].category = "hihat"
             THEN IF Holds(filename, <<"o", "p", "e", "n">>) THEN "open_hihat" ELSE "closed_hihat"
        ELSE Rules[first].category

\* C17: categorizeSample gives every file name one of the nine categories, the
\* one of the earliest rule the name matches whatever the case of its letters.
C17_FirstMatchWins ==
    cz.category # Null =>
        /\ cz.category \in Categories
        /\ cz.category = FirstMatch(cz.filename)

\* An upper-case name that matches the hihat rule and the tom rule, and was
\* given the hihat rule's category.
C17_Witness ==
    /\ cz.filename = toUpperCase(<<"t", "o", "m">> \o <<"h", "a", "t">>)
    /\ cz.category = "closed_hihat"

(***************************************************************************)
(* The auto-map's properties.                                              *)
(***************************************************************************)
\* The run has settled: Promise.all resolved and the keys were published.
Settled == am.pc = "settled"

\* The slot tasks that picked a sample.
Picked == { t \in 1 .. Len(SlotTasks) : am.pc # "idle" /\ am.picked[t] # NoSample }

\* The slot tasks of a key whose sample was loaded into the key.
Won(k) == { t \in Picked : SlotTasks[t].keyIndex = k /\ am.picked[t].id \notin am.unreadable }

\* The keys the run assigned.
AssignedByRun == { k \in 1 .. Len(keys) : Won(k) # {} }

\* The category of a sample of the run.
CategoryOf(sample) ==
    LET found == { i \in 1 .. Len(am.samples) : am.samples[i].file = sample }
    IN  am.samples[CHOOSE i \in found : TRUE].category

\* The run was handed at least 24 samples, of distinct file names, with each
\* category of the table among them, and all its files could be read.
FullLibrary ==
    /\ Len(am.samples) >= Len(INITIAL_KEYS)
    /\ \A i, j \in 1 .. Len(am.samples) : i # j => am.samples[i].file.name # am.samples[j].file.name
    /\ \A c \in Categories : \E i \in 1 .. Len(am.samples) : am.samples[i].category = c
    /\ am.unreadable = {}

\* C15: a settled run over at least 24 samples of distinct file names that span
\* all categories has left no key without a sample.
C15_EveryKeyAssigned ==
    (Settled /\ FullLibrary) => \A k \in 1 .. Len(keys) : keys[k].sample # NoSample

\* The fixed table: the categories a key is filled from.
Allowed(k) ==
    IF k <= 2 THEN {"kick"}
    ELSE IF k <= 4 THEN {"snare"}
    ELSE IF k <= 6 THEN {"rim_clap"}
    ELSE IF k <= 10 THEN {"closed_hihat"}
    ELSE IF k = 11 THEN {"open_hihat"}
    ELSE IF k = 12 THEN {"perc"}
    ELSE IF k = 13 THEN {"tom"}
    ELSE IF k <= 18 THEN {"tom", "cymbal"}
    ELSE {"perc", "other"}

\* C18: after a run settles every key it assigned holds a sample of one of the
\* key's categories or of the category other, and every slot task tried its
\* own categories and then, at most once, the category other alone.
C18_CategoryInTable ==
    /\ Settled =>
          \A k \in AssignedByRun :
              /\ keys[k].sample \in { am.picked[t] : t \in Won(k) }
              /\ CategoryOf(keys[k].sample) \in Allowed(k) \cup {"other"}
    /\ am.pc # "idle" =>
          \A t \in 1 .. Len(SlotTasks) :
              /\ Len(am.tried[t]) <= 2
              /\ Len(am.tried[t]) = 2 => am.tried[t][2] = <<"other">>
              /\ \A i \in 1 .. Len(am.tried[t]) :
                    \A j \in 1 .. Len(am.tried[t][i]) :
                        am.tried[t][i][j] \in Allowed(SlotTasks[t].keyIndex) \cup {"other"}

\* A settled run gave a snare key a sample of the category other, after the
\* task tried snare and then other.
C18_Witness ==
    /\ Settled
    /\ 3 \in AssignedByRun
    /\ CategoryOf(keys[3].sample) = "other"
    /\ am.tried[3] = << <<"snare">>, <<"other">> >>

\* C19: any two slot tasks of a run that picked a sample picked samples of
\* different file names, and after the run settles no two keys it assigned hold
\* samples of one file name.
C19_NoNameTwice ==
    /\ \A t, u \in Picked : t # u => am.picked[t].name # am.picked[u].name
    /\ Settled =>
          \A j, k \in AssignedByRun : j # k => keys[j].sample.name # keys[k].sample.name

\* A settled run over a folder that holds two files of one name assigned two
\* keys.
C19_Witness ==
    /\ Settled
    /\ \E i, j \in 1 .. Len(am.samples) :
          i # j /\ am.samples[i].file.name = am.samples[j].file.name
    /\ Cardinality(AssignedByRun) >= 2

\* C20: while slot tasks are picking or loading, the keys are the keys the run
\* started from; once it settles, a key none of whose tasks loaded a sample is
\* as it was, every other key holds the sample of one of its tasks that loaded,
\* and no error is shown.
C20_SettledAfterAll ==
    /\ am.pc \in {"assignSample", "Promise.all"} => keys = am.startKeys
    /\ am.pc = "Promise.all" => \A t \in am.pending : t \in Picked
    /\ Settled =>
          /\ am.pending = {}
          /\ pk.error = Null
          /\ \A k \in 1 .. Len(keys) :
                IF Won(k) = {} THEN keys[k] = am.startKeys[k]
                ELSE /\ keys[k].sample \in { am.picked[t] : t \in Won(k) }
                     /\ keys[k].note = am.startKeys[k].note

\* A settled run one of whose files could not be read: the key that was to
\* take it kept the sample it had, a key without any available sample kept
\* its own, and another key was assigned.
C20_Witness ==
    /\ Settled
    /\ \E t \in Picked :
          /\ am.picked[t].id \in am.unreadable
          /\ am.startKeys[SlotTasks[t].keyIndex].sample # NoSample
          /\ keys[SlotTasks[t].keyIndex] = am.startKeys[SlotTasks[t].keyIndex]
    /\ \E k \in 1 .. Len(keys) :
          /\ \A t \in 1 .. Len(SlotTasks) : SlotTasks[t].keyIndex = k => am.picked[t] = NoSample
          /\ keys[k] = am.startKeys[k]
    /\ AssignedByRun # {}

(***************************************************************************)
(* The layout's property.                                                  *)
(***************************************************************************)
\* A key list has the entries of the fixed layout: its length, its notes, its order.
HasLayout(ks) ==
    /\ Len(ks) = 24
    /\ Len(ks) = Len(INITIAL_KEYS)
    /\ \A k \in 1 .. Len(ks) : ks[k].note = INITIAL_KEYS[k].note

\* C16: the keys of the session, of every stored rack, of the current rack and
\* of every rack a download saved have the entries of the fixed layout.
C16_LayoutKept ==
    /\ HasLayout(keys)
    /\ \A rack \in drumRacks : HasLayout(rack.keys)
    /\ currentRack # NoRack => HasLayout(currentRack.keys)
    /\ \A slot \in DOMAIN dl : dl[slot].newRack # NoRack => HasLayout(dl[slot].newRack.keys)
    /\ am.pc # "idle" => HasLayout(am.newKeys)

\* A session that auto-mapped, saved the rack by a download and loaded it again.
C16_Witness ==
    /\ Settled
    /\ AssignedByRun # {}
    /\ currentRack \in drumRacks
    /\ keys = currentRack.keys
    /\ \E slot \in Downloaded : dl[slot].newRack # NoRack

(***************************************************************************)
(* C21: the note-to-MIDI mapping used for the regions sends the 24 keys of  *)
(* the layout, in layout order, to the consecutive numbers 53..76 (F2 to   *)
(* 53), so that two different keys never get the same lokey/hikey.         *)
(***************************************************************************)
C21_LayoutToConsecutive ==
    midi.version # Null =>
        /\ midi.numbers[1] = FixedMidi(midi.first)
        /\ midi.numbers[2] = FixedMidi(midi.second)
        /\ (midi.first # midi.second => midi.numbers[1] # midi.numbers[2])

(***************************************************************************)
(* C23: audioBufferToWav writes a 44-byte header and then exactly          *)
(* frames x channels 16-bit words, interleaved by channel: the word at     *)
(* p x channels + c is the clamped, scaled value of channel c at frame p,  *)
(* for every frame p of the buffer, whatever the length of the buffer.     *)
(***************************************************************************)
C23_EveryFrameWritten ==
    wav.pc = "done" =>
        LET numOfChan == wav.buffer.numberOfChannels
        IN  /\ PosAfter(wav.header, Len(wav.header)) = 44
            /\ Len(wav.data) = wav.buffer.length * numOfChan
            /\ \A p \in 0 .. wav.buffer.length - 1 : \A c \in 0 .. numOfChan - 1 :
                    wav.data[p * numOfChan + c + 1]
                        = Int16(Clamped(getChannelData(wav.buffer, c, p)))

(***************************************************************************)
(* C22: for a sample exported with edit parameters, the region's           *)
(* framecount and sample.end are both floor(endTime x sampleRate) -        *)
(* floor(startTime x sampleRate), the number of frames of the clip         *)
(* written (22050 for 0.25 s .. 0.75 s at 44100 Hz); fade.in, fade.out,    *)
(* pan, transpose and tune are 0 and reverse is false, whatever the edit   *)
(* parameters.                                                             *)
(***************************************************************************)
\* The frames of a written file: its data bytes over its block-align.
FramesOfFile(file) == (file.size - 44) \div file.header[10][2]

C22_FramecountIsClipLength ==
    clip.pc = "region" =>
        LET region == clip.region[1]
            frames == ((clip.params.endTime * clip.sampleRate) \div 4)
                        - ((clip.params.startTime * clip.sampleRate) \div 4)
        IN  /\ region["framecount"] = frames
            /\ region["sample.end"] = frames
            /\ FramesOfFile(clip.file[1]) = frames
            /\ (clip.sampleRate = 44100 /\ clip.params.startTime = 1
                    /\ clip.params.endTime = 3 => region["framecount"] = 22050)
            /\ \A r \in {"fade.in", "fade.out", "pan", "transpose", "tune", "reverse"} :
                    region[r] = 0

\* A clip of a range whose duration rounds differently than its ends, reversed and faded.
C22_Witness ==
    /\ clip.pc = "region"
    /\ clip.params.isReversed
    /\ clip.params.fadeIn = 1
    /\ clip.sampleRate = 6
    /\ clip.params.startTime = 1
    /\ clip.params.endTime = 2
    /\ clip.region[1]["framecount"] = 2

(***************************************************************************)
(* C24: a sample record created without audio details has duration,        *)
(* channels, sampleRate and rmsLevel absent, not 0, and they stay absent   *)
(* until an analysis supplies them: a field of a record is absent or is    *)
(* what a decode or an analysis found (which in this model is never 0).    *)
(***************************************************************************)
C24_AbsentUntilAnalyzed ==
    \A s \in samples :
        /\ s.duration \in {Undefined, Analyzed.duration}
        /\ s.channels \in {Undefined, Analyzed.channels}
        /\ s.sampleRate \in {Undefined, Analyzed.sampleRate}
        /\ s.rmsLevel \in {Undefined, Analyzed.rmsLevel}

(***************************************************************************)
(* C25: updateSample never creates a record: under every interleaving with *)
(* removeSample or removeDirectory its write leaves a deleted sample       *)
(* deleted, and on a missing id it fails with 'Sample not found' and       *)
(* leaves the store unchanged.                                             *)
(***************************************************************************)
C25_UpdateNeverCreates ==
    [][/\ (upd.pc = "put" /\ upd'.pc = "returned")
            => { s.id : s \in samples' } \subseteq { s.id : s \in samples }
       /\ (upd.pc = "idle" /\ upd'.pc = "returned")
            => (upd'.result = "Sample not found" /\ samples' = samples)]_vars

(***************************************************************************)
(* C26: whenever no key operation is in flight, a key has a sample if and  *)
(* only if a player and a buffer are both registered under its note, after *)
(* any sequence of drops (successful or failed), auto-map, load-rack and   *)
(* clear; so a click on a key that shows a sample plays it.                *)
(***************************************************************************)
C26_AssignedIffPlayable ==
    Quiet =>
        \A k \in 1 .. Len(keys) :
            keys[k].sample # NoSample
                <=> (keys[k].note \in DOMAIN playersRef /\ keys[k].note \in DOMAIN buffersRef)

(***************************************************************************)
(* C27: auto-map leaks no audio resources: after a run has settled, every  *)
(* player and every buffer that was created and not disposed is registered *)
(* under exactly one key note, also for the five keys that a tom task and  *)
(* a cymbal task both target.                                              *)
(***************************************************************************)
RegisteredOnce(live, ref) ==
    \A object \in live : Cardinality({ note \in DOMAIN ref : ref[note] = object }) = 1

C27_NoLeak ==
    Settled => RegisteredOnce(tone.players, playersRef) /\ RegisteredOnce(tone.buffers, buffersRef)

(***************************************************************************)
(* C28: when the user selects a sample and then another before the first   *)
(* one's analysis has finished, then once all analyses have settled the    *)
(* selected sample is the one selected last: a late end of an earlier      *)
(* analysis never brings an earlier selection back.                        *)
(***************************************************************************)
C28_LastSelectionStays ==
    (sel.runs # << >> /\ \A run \in DOMAIN sel.runs : sel.runs[run].pc # "pending")
        => \E s \in sel.selectedSample : s.id = sel.runs[Len(sel.runs)].sample.id

(***************************************************************************)
(* C29: addDirectory returns null only if the catalog is unchanged: when   *)
(* it returns null (picker cancelled, path already stored, or a failure    *)
(* during the scan or the metadata extraction), the call has added no      *)
(* directory record, no sample record and no handle-cache entry.  What a   *)
(* call adds carries the id the call drew.                                 *)
(***************************************************************************)
C29_NullLeavesCatalog ==
    (add.pc = "returned" /\ add.result = "null") =>
        /\ add.id \notin DirectoryIds
        /\ SamplesOf(add.id) = {}
        /\ add.id \notin DOMAIN directoryHandles
        /\ add.id \notin DOMAIN directoryPermissions

(***************************************************************************)
(* C30: every download names its archive after the preset: the folder      *)
(* '<name>.preset' and the file '<name>.zip' carry the non-empty name the  *)
(* user provided or, when there is a current rack, the name of that rack;  *)
(* also a second download after a first one has completed.                 *)
(***************************************************************************)
C30_ArchiveNamedAfterPreset ==
    \A slot \in Downloaded :
        /\ dl[slot].presetName # ""
        /\ IF dl[slot].currentRack # NoRack
           THEN dl[slot].presetName = dl[slot].currentRack.name
           ELSE dl[slot].presetName \in PresetNames

====
